---- MODULE Spec2Model ----
(***************************************************************************)
(* Model of the housing-algo scoring and assignment engine.                *)
(*                                                                         *)
(* Number representation.  The solver works on JavaScript numbers of the   *)
(* form  s + epsilon * h / 0xffffffff  where s is a raw score, h a sum or  *)
(* difference of 32-bit hashes and epsilon a multiple k * 1e-9.  Such a    *)
(* number is held exactly as the triple <<a, hi, lo>> standing for         *)
(*      a + (hi * 65536 + lo) * (1e-9 / 0xffffffff),   0 <= lo < 65536,    *)
(* with a an integer (a raw score, or its numerator over the common        *)
(* denominator of the matrix).  hi is a machine integer of the checker,    *)
(* so |hi * 65536 + lo| < 2^47 < 0xffffffff * 1e9 / 2 and comparing two    *)
(* triples lexicographically is comparing the numbers they stand for.      *)
(* Infinity is the empty tuple.  Rounding of IEEE doubles is not modelled. *)
(*                                                                         *)
(* Identifiers are sequences of UTF-16 code units.                         *)
(***************************************************************************)
EXTENDS Integers, Sequences, FiniteSets, TLC

\* ------------------------------------------------------------- bounds
\* Largest number of people (matrix rows) the inputs are drawn with.
MaxPeople == 3
\* Largest number of rooms (matrix columns) the inputs are drawn with.
MaxRooms == 3
\* Raw scores are drawn from -1 .. MaxScore.
MaxScore == 1
\* Largest number of people and of rooms in a configuration given to main.
MainMaxPeople == 2
MainMaxRooms == 2
\* Largest magnitude of a finite number (stands for Number.MAX_VALUE).
MaxFinite == 10000
\* Largest number of rows and of columns of a matrix given to buildPerturbedScores.
PerturbMaxSize == 2
\* Largest number of people and of rooms given to assignRooms.
LegacyMaxPeople == 2
LegacyMaxRooms == 2
LiveMaxSize == 3
LiveMaxScore == 1
MaxResidents == 3
MaxRetries == 2

\* ------------------------------------------------------------- numbers
Limb == 256 * 256

Inf == <<>>
IsInf(x) == Len(x) = 0
Zero == <<0, 0, 0>>
Raw(a) == <<a, 0, 0>>

\* x + y
NAdd(x, y) ==
  IF IsInf(x) \/ IsInf(y) THEN Inf
  ELSE LET lo == x[3] + y[3]
       IN <<x[1] + y[1], x[2] + y[2] + (lo \div Limb), lo % Limb>>

\* x - y
NSub(x, y) ==
  IF IsInf(x) THEN Inf
  ELSE LET lo == x[3] - y[3]
       IN <<x[1] - y[1], x[2] - y[2] + (lo \div Limb), lo % Limb>>

\* -x
NNeg(x) == NSub(Zero, x)

\* x < y
NLess(x, y) ==
  IF IsInf(x) THEN FALSE
  ELSE IF IsInf(y) THEN TRUE
  ELSE \/ x[1] < y[1]
       \/ x[1] = y[1] /\ x[2] < y[2]
       \/ x[1] = y[1] /\ x[2] = y[2] /\ x[3] < y[3]

\* ------------------------------------------------------------- strings
Colon == <<58>>
PersonPrefix == <<112, 101, 114, 115, 111, 110, 58>>
RoomPrefix == <<114, 111, 111, 109, 58>>

\* JavaScript's < on strings: lexicographic on code units, a proper prefix first.
RECURSIVE StrLess(_, _)
StrLess(s, t) ==
  IF Len(t) = 0 THEN FALSE
  ELSE IF Len(s) = 0 THEN TRUE
  ELSE IF s[1] # t[1] THEN s[1] < t[1]
  ELSE StrLess(Tail(s), Tail(t))

\* ------------------------------------------------------------- fnv1aHash
\* A 32-bit word is the pair <<hi, lo>> of its 16-bit halves.
FNV_OFFSET_HI == 33052
FNV_OFFSET_LO == 40389
\* FNV_PRIME = 16777619 = 256 * 65536 + 403
FNV_PRIME_HI == 256
FNV_PRIME_LO == 403

RECURSIVE BitXor(_, _)
BitXor(a, b) ==
  IF a = 0 THEN b
  ELSE IF b = 0 THEN a
  ELSE ((a + b) % 2) + 2 * BitXor(a \div 2, b \div 2)

\* Math.imul(hash, FNV_PRIME): the low 32 bits of the product.
Imul(w) ==
  LET low == w[2] * FNV_PRIME_LO
      high == w[1] * FNV_PRIME_LO + w[2] * FNV_PRIME_HI + (low \div Limb)
  IN <<high % Limb, low % Limb>>

RECURSIVE FnvLoop(_, _, _)
FnvLoop(str, i, hash) ==
  IF i > Len(str) THEN hash
  ELSE FnvLoop(str, i + 1, Imul(<<hash[1], BitXor(hash[2], str[i])>>))

\* The unsigned 32-bit hash (hash >>> 0), before the division by 0xffffffff.
fnv1aHash(str) == FnvLoop(str, 1, <<FNV_OFFSET_HI, FNV_OFFSET_LO>>)

\* Numerator of computeTieBreaker(personId, roomId) over 0xffffffff.
computeTieBreaker(personId, roomId) == fnv1aHash(personId \o Colon \o roomId)

\* Mutant of Perturb: epsilon taken 1e9 times too large (score + epsUnits *
\* tieBreaker).  The result is held in units of 1/65536 point, the tie-breaker
\* rounded down to that unit.
PerturbUnscaled(score, epsUnits, tb) ==
  <<score[1] * Limb + epsUnits * tb[1], score[2], score[3]>>

\* score + epsilon * tieBreaker, with epsilon = epsUnits * 1e-9.
Perturb(score, epsUnits, tb) ==
  LET lo == epsUnits * tb[2]
  IN NAdd(score, <<0, epsUnits * tb[1] + (lo \div Limb), lo % Limb>>)

buildPerturbedScores(scores, people, rooms, epsUnits) ==
  [pi \in 1..Len(scores) |->
     [ri \in 1..Len(scores[pi]) |->
        Perturb(scores[pi][ri], epsUnits, computeTieBreaker(people[pi], rooms[ri]))]]

\* ------------------------------------------------------------- hungarian
\* Arrays of the algorithm are functions on 0..size; cost is 1-based here
\* (cost[i0][j] is the code's cost[i0 - 1][j - 1]).
NumRows(matrix) == Len(matrix)
NumCols(matrix) == IF Len(matrix) = 0 THEN 0 ELSE Len(matrix[1])
MaxOf(a, b) == IF a > b THEN a ELSE b

\* Mutant of BuildCost: the scores are not negated.
BuildCostNotNegated(matrix, n, m, size) ==
  [i \in 1..size |->
     [j \in 1..size |-> IF i <= n /\ j <= m THEN matrix[i][j] ELSE Zero]]

BuildCost(matrix, n, m, size) ==
  [i \in 1..size |->
     [j \in 1..size |-> IF i <= n /\ j <= m THEN NNeg(matrix[i][j]) ELSE Zero]]

\* for (let j = 1; j <= size; j++) { if (!used[j]) {...} }  of one search pass.
\* s carries minv, way, delta, j1.
RECURSIVE ScanColumns(_, _, _, _, _, _)
ScanColumns(cost, size, h, i0, j, s) ==
  IF j > size THEN s
  ELSE IF h.used[j] THEN ScanColumns(cost, size, h, i0, j + 1, s)
  ELSE LET cur == NSub(NSub(cost[i0][j], h.u[i0]), h.v[j])
           better == NLess(cur, s.minv[j])
           minvj == IF better THEN cur ELSE s.minv[j]
           s1 == [s EXCEPT !.minv[j] = minvj,
                           !.way[j] = IF better THEN h.j0 ELSE @]
           s2 == IF NLess(minvj, s1.delta)
                 THEN [s1 EXCEPT !.delta = minvj, !.j1 = j]
                 ELSE s1
       IN ScanColumns(cost, size, h, i0, j + 1, s2)

\* Mutant of UpdatePotentials: the column potentials are left alone.
RECURSIVE UpdatePotentialsRowsOnly(_, _, _, _)
UpdatePotentialsRowsOnly(size, delta, j, h) ==
  IF j > size THEN h
  ELSE IF h.used[j]
       THEN UpdatePotentialsRowsOnly(size, delta, j + 1,
              [h EXCEPT !.u[h.p[j]] = NAdd(@, delta)])
       ELSE UpdatePotentialsRowsOnly(size, delta, j + 1,
              [h EXCEPT !.minv[j] = NSub(@, delta)])

\* for (let j = 0; j <= size; j++) { if (used[j]) {...} else {...} }
RECURSIVE UpdatePotentials(_, _, _, _)
UpdatePotentials(size, delta, j, h) ==
  IF j > size THEN h
  ELSE IF h.used[j]
       THEN UpdatePotentials(size, delta, j + 1,
              [h EXCEPT !.u[h.p[j]] = NAdd(@, delta), !.v[j] = NSub(@, delta)])
       ELSE UpdatePotentials(size, delta, j + 1,
              [h EXCEPT !.minv[j] = NSub(@, delta)])

\* The body of the scan loop for one column j.
ScanColumn(cost, h, i0, j, s) ==
  IF h.used[j] THEN s
  ELSE LET cur == NSub(NSub(cost[i0][j], h.u[i0]), h.v[j])
           better == NLess(cur, s.minv[j])
           minvj == IF better THEN cur ELSE s.minv[j]
           s1 == [s EXCEPT !.minv[j] = minvj,
                           !.way[j] = IF better THEN h.j0 ELSE @]
       IN IF NLess(minvj, s1.delta)
          THEN [s1 EXCEPT !.delta = minvj, !.j1 = j]
          ELSE s1

\* The body of the potential update loop for one column j.
UpdatePotential(delta, j, h) ==
  IF h.used[j]
  THEN [h EXCEPT !.u[h.p[j]] = NAdd(@, delta), !.v[j] = NSub(@, delta)]
  ELSE [h EXCEPT !.minv[j] = NSub(@, delta)]

\* One pass of the do { ... } while (p[j0] !== 0) loop.  passes counts the
\* passes of the current search (it is not a variable of the code).
SearchPass(cost, size, h) ==
  LET h1 == [h EXCEPT !.used[h.j0] = TRUE]
      i0 == h1.p[h1.j0]
      s == ScanColumns(cost, size, h1, i0, 1,
             [minv |-> h1.minv, way |-> h1.way, delta |-> Inf, j1 |-> 0])
      h2 == [h1 EXCEPT !.minv = s.minv, !.way = s.way]
      h3 == UpdatePotentials(size, s.delta, 0, h2)
  IN [h3 EXCEPT !.j0 = s.j1, !.passes = @ + 1]

\* The do-while loop.
RECURSIVE Search(_, _, _)
Search(cost, size, h) ==
  LET h1 == SearchPass(cost, size, h)
  IN IF h1.p[h1.j0] # 0 THEN Search(cost, size, h1) ELSE h1

\* while (j0 !== 0) { const j1 = way[j0]; p[j0] = p[j1]; j0 = j1; }
RECURSIVE Augment(_)
Augment(h) ==
  IF h.j0 = 0 THEN h
  ELSE LET j1 == h.way[h.j0]
       IN Augment([h EXCEPT !.p[h.j0] = h.p[j1], !.j0 = j1])

\* Mutant of AugmentStep: the row of column 0 is written instead of the row
\* of the previous column of the path.
AugmentStepFromRoot(h) ==
  [h EXCEPT !.p[h.j0] = h.p[0], !.j0 = h.way[h.j0]]

\* const j1 = way[j0]; p[j0] = p[j1]; j0 = j1;
AugmentStep(h) ==
  [h EXCEPT !.p[h.j0] = h.p[h.way[h.j0]], !.j0 = h.way[h.j0]]

\* Mutant of StartRow: the used array of the previous row is kept.
StartRowKeepUsed(size, i, h) ==
  [h EXCEPT !.p[0] = i, !.j0 = 0, !.passes = 0,
            !.minv = [j \in 0..size |-> Inf]]

\* Start of the outer iteration for row i.
StartRow(size, i, h) ==
  [h EXCEPT !.p[0] = i, !.j0 = 0, !.passes = 0,
            !.minv = [j \in 0..size |-> Inf],
            !.used = [j \in 0..size |-> FALSE]]

HungInit(size) ==
  [u |-> [j \in 0..size |-> Zero], v |-> [j \in 0..size |-> Zero],
   p |-> [j \in 0..size |-> 0], way |-> [j \in 0..size |-> 0],
   minv |-> [j \in 0..size |-> Inf], used |-> [j \in 0..size |-> FALSE],
   j0 |-> 0, passes |-> 0]

\* for (let i = 1; i <= size; i++) { ... }
RECURSIVE OuterLoop(_, _, _, _)
OuterLoop(cost, size, i, h) ==
  IF i > size THEN h
  ELSE OuterLoop(cost, size, i + 1, Augment(Search(cost, size, StartRow(size, i, h))))

\* Mutant of BuildResult: the 1-based column j is stored as it is.
RECURSIVE BuildResultOneBased(_, _, _, _, _)
BuildResultOneBased(p, n, m, j, result) ==
  IF j > m THEN result
  ELSE LET personIndex == p[j] - 1
       IN BuildResultOneBased(p, n, m, j + 1,
            IF personIndex >= 0 /\ personIndex < n
            THEN [result EXCEPT ![personIndex + 1] = j]
            ELSE result)

\* result[personIndex] = j - 1 for every column j <= m with 0 <= p[j] - 1 < n.
RECURSIVE BuildResult(_, _, _, _, _)
BuildResult(p, n, m, j, result) ==
  IF j > m THEN result
  ELSE LET personIndex == p[j] - 1
       IN BuildResult(p, n, m, j + 1,
            IF personIndex >= 0 /\ personIndex < n
            THEN [result EXCEPT ![personIndex + 1] = j - 1]
            ELSE result)

HungarianRun(matrix) ==
  LET n == NumRows(matrix)
      m == NumCols(matrix)
      size == MaxOf(n, m)
  IN OuterLoop(BuildCost(matrix, n, m, size), size, 1, HungInit(size))

\* Mutant of hungarian: the n > m check comes first.
hungarianThrowFirst(matrix) ==
  LET n == NumRows(matrix)
      m == NumCols(matrix)
  IN IF n > m THEN [kind |-> "throw", result |-> <<>>]
     ELSE IF n = 0 \/ m = 0 THEN [kind |-> "ok", result |-> <<>>]
     ELSE [kind |-> "ok",
           result |-> BuildResult(HungarianRun(matrix).p, n, m, 1, [i \in 1..n |-> -1])]

\* Mutant of hungarian: the n > m check is missing.
hungarianUnchecked(matrix) ==
  LET n == NumRows(matrix)
      m == NumCols(matrix)
  IN IF n = 0 \/ m = 0 THEN [kind |-> "ok", result |-> <<>>]
     ELSE [kind |-> "ok",
           result |-> BuildResult(HungarianRun(matrix).p, n, m, 1, [i \in 1..n |-> -1])]

\* hungarian(matrix): [kind |-> "ok", result |-> seq of 0-based column indices]
\* (result[i] is the code's result[i - 1]) or [kind |-> "throw"].
hungarian(matrix) ==
  LET n == NumRows(matrix)
      m == NumCols(matrix)
  IN IF n = 0 \/ m = 0 THEN [kind |-> "ok", result |-> <<>>]
     ELSE IF n > m THEN [kind |-> "throw", result |-> <<>>]
     ELSE [kind |-> "ok",
           result |-> BuildResult(HungarianRun(matrix).p, n, m, 1, [i \in 1..n |-> -1])]

\* ------------------------------------------------------------- solveAssignment
\* A Map is a function on the set of its keys; set() overrides an existing key.
MapSet(map, key, value) ==
  [k \in (DOMAIN map) \cup {key} |-> IF k = key THEN value ELSE map[k]]

EmptyMap == [k \in {} |-> <<>>]

\* The loop that builds the id-based result; acc carries assignment, totalScore
\* and kind ("throw" when rooms[roomIndex] is undefined and .id is read).
RECURSIVE BuildAssignment(_, _, _, _, _, _)
BuildAssignment(scores, people, rooms, indexAssignment, personIndex, acc) ==
  IF personIndex > Len(people) \/ acc.kind = "throw" THEN acc
  ELSE LET roomIndex == IF personIndex <= Len(indexAssignment)
                        THEN indexAssignment[personIndex] ELSE -1
       IN IF roomIndex < 0 \/ roomIndex >= Len(rooms)
          THEN [acc EXCEPT !.kind = "throw"]
          ELSE BuildAssignment(scores, people, rooms, indexAssignment, personIndex + 1,
                 [acc EXCEPT
                    !.assignment = MapSet(@, people[personIndex], rooms[roomIndex + 1]),
                    !.totalScore = NAdd(@, scores[personIndex][roomIndex + 1])])

\* options = [deterministicTieBreak |-> BOOLEAN, epsilon |-> multiple of 1e-9]
DefaultOptions == [deterministicTieBreak |-> TRUE, epsilon |-> 1]

\* The result loop of solveAssignment on the index assignment hungarian returned.
IdBasedResult(scores, people, rooms, indexAssignment) ==
  IF indexAssignment.kind = "throw"
  THEN [kind |-> "throw", assignment |-> EmptyMap, totalScore |-> Zero]
  ELSE BuildAssignment(scores, people, rooms, indexAssignment.result, 1,
         [kind |-> "ok", assignment |-> EmptyMap, totalScore |-> Zero])

\* Mutant of solveAssignment: the total is summed over the working scores.
solveAssignmentWorkingTotal(scores, people, rooms, options) ==
  IF Len(people) = 0
  THEN [kind |-> "ok", assignment |-> EmptyMap, totalScore |-> Zero]
  ELSE IF Len(people) > Len(rooms)
  THEN [kind |-> "throw", assignment |-> EmptyMap, totalScore |-> Zero]
  ELSE LET workingScores == IF options.deterministicTieBreak
                            THEN buildPerturbedScores(scores, people, rooms, options.epsilon)
                            ELSE scores
       IN IdBasedResult(workingScores, people, rooms, hungarian(workingScores))

solveAssignment(scores, people, rooms, options) ==
  IF Len(people) = 0
  THEN [kind |-> "ok", assignment |-> EmptyMap, totalScore |-> Zero]
  ELSE IF Len(people) > Len(rooms)
  THEN [kind |-> "throw", assignment |-> EmptyMap, totalScore |-> Zero]
  ELSE LET workingScores == IF options.deterministicTieBreak
                            THEN buildPerturbedScores(scores, people, rooms, options.epsilon)
                            ELSE scores
       IN IdBasedResult(scores, people, rooms, hungarian(workingScores))

\* rooms.findIndex((room) => room.id === roomId), 0-based, -1 when absent.
RECURSIVE FindIndex(_, _, _)
FindIndex(rooms, roomId, i) ==
  IF i > Len(rooms) THEN -1
  ELSE IF rooms[i] = roomId THEN i - 1
  ELSE FindIndex(rooms, roomId, i + 1)

\* The people.map(...) of assignRooms on the result of solveAssignment.
IndexBasedResult(people, rooms, result) ==
  IF result.kind = "throw"
  THEN [kind |-> "throw", assignment |-> <<>>, totalScore |-> Zero]
  ELSE IF \E i \in 1..Len(people) :
            \/ people[i] \notin DOMAIN result.assignment
            \/ Len(result.assignment[people[i]]) = 0
  THEN [kind |-> "throw", assignment |-> <<>>, totalScore |-> Zero]
  ELSE [kind |-> "ok",
        assignment |-> [i \in 1..Len(people) |->
                          FindIndex(rooms, result.assignment[people[i]], 1)],
        totalScore |-> result.totalScore]

\* assignRooms(scores, people, rooms): index-based view of solveAssignment.
assignRooms(scores, people, rooms) ==
  IndexBasedResult(people, rooms, solveAssignment(scores, people, rooms, DefaultOptions))

\* ------------------------------------------------------------- validateUniqueIds
\* String.prototype.toLowerCase, on the ASCII letters the ids are drawn from.
LowerUnit(c) == IF c >= 65 /\ c <= 90 THEN c + 32 ELSE c
toLowerCase(id) == [k \in 1..Len(id) |-> LowerUnit(id[k])]

\* String.prototype.trim: white space is removed from both ends only.
IsWhiteSpace(c) == c \in {9, 10, 11, 12, 13, 32, 160}

RECURSIVE TrimStart(_)
TrimStart(s) ==
  IF Len(s) > 0 /\ IsWhiteSpace(s[1]) THEN TrimStart(Tail(s)) ELSE s

RECURSIVE TrimEnd(_)
TrimEnd(s) ==
  IF Len(s) > 0 /\ IsWhiteSpace(s[Len(s)]) THEN TrimEnd(SubSeq(s, 1, Len(s) - 1)) ELSE s

trim(s) == TrimEnd(TrimStart(s))

\* Canonical form without the lowercasing step.
canonicalizeIdCaseSensitive(id) == trim(id)

canonicalizeId(id) == trim(toLowerCase(id))

\* One of the two for-loops: ids[k..] are checked against seen under prefix.
RECURSIVE ValidateLoop(_, _, _, _, _)
ValidateLoop(ids, prefix, k, seen, duplicates) ==
  IF k > Len(ids) THEN [seen |-> seen, duplicates |-> duplicates]
  ELSE LET key == prefix \o canonicalizeId(ids[k])
       IN ValidateLoop(ids, prefix, k + 1, seen \cup {key},
                       IF key \in seen THEN Append(duplicates, prefix \o ids[k])
                       ELSE duplicates)

validateUniqueIds(personIds, roomIds) ==
  LET afterPeople == ValidateLoop(personIds, PersonPrefix, 1, {}, <<>>)
      afterRooms == ValidateLoop(roomIds, RoomPrefix, 1, afterPeople.seen,
                                 afterPeople.duplicates)
  IN [valid |-> Len(afterRooms.duplicates) = 0, duplicates |-> afterRooms.duplicates]

\* ------------------------------------------------------------- score arithmetic
\* Scores, weights and metrics are exact fractions <<numerator, denominator>>
\* in lowest terms with a positive denominator.  A finite number has magnitude
\* at most MaxFinite (the model's Number.MAX_VALUE); a result beyond it is an
\* infinity.  <<1, 0>> is +Infinity, <<-1, 0>> is -Infinity and <<0, 0>> is NaN.
\* Rounding of finite results and the sign of zero are not modelled.
RECURSIVE Gcd(_, _)
Gcd(a, b) == IF b = 0 THEN a ELSE Gcd(b, a % b)

Abs(a) == IF a < 0 THEN -a ELSE a
Sign(a) == IF a < 0 THEN -1 ELSE IF a > 0 THEN 1 ELSE 0

NonFinite == <<0, 0>>
PosInfinity == <<1, 0>>
NegInfinity == <<-1, 0>>
IsFinite(x) == x[2] # 0
IsNaN(x) == x[2] = 0 /\ x[1] = 0

\* n / d for integers n and d, d = 0 included.
Frac(n, d) ==
  IF d = 0 THEN <<Sign(n), 0>>
  ELSE IF Abs(n) > MaxFinite * Abs(d) THEN <<Sign(n) * Sign(d), 0>>
  ELSE LET g == Gcd(Abs(n), Abs(d))
           sign == IF d < 0 THEN -1 ELSE 1
       IN <<(sign * n) \div g, (sign * d) \div g>>

Whole(n) == <<n, 1>>

QNeg(x) == <<-x[1], x[2]>>

QAdd(x, y) ==
  IF IsFinite(x) /\ IsFinite(y) THEN Frac(x[1] * y[2] + y[1] * x[2], x[2] * y[2])
  ELSE IF IsNaN(x) \/ IsNaN(y) THEN NonFinite
  ELSE IF IsFinite(x) THEN y
  ELSE IF IsFinite(y) \/ x = y THEN x
  ELSE NonFinite

QSub(x, y) == QAdd(x, QNeg(y))

QMul(x, y) ==
  IF IsFinite(x) /\ IsFinite(y) THEN Frac(x[1] * y[1], x[2] * y[2])
  ELSE <<Sign(x[1]) * Sign(y[1]), 0>>

QDiv(x, y) ==
  IF IsFinite(x) /\ IsFinite(y) THEN Frac(x[1] * y[2], x[2] * y[1])
  ELSE IF IsFinite(x) THEN (IF IsNaN(y) THEN NonFinite ELSE Whole(0))
  ELSE IF IsFinite(y) THEN <<x[1] * (IF y[1] < 0 THEN -1 ELSE 1), 0>>
  ELSE NonFinite

\* x < y (false when either is NaN)
QLess(x, y) ==
  IF IsNaN(x) \/ IsNaN(y) THEN FALSE
  ELSE IF IsFinite(x) /\ IsFinite(y) THEN x[1] * y[2] < y[1] * x[2]
  ELSE IF IsFinite(x) THEN y[1] > 0
  ELSE IF IsFinite(y) THEN x[1] < 0
  ELSE x[1] < y[1]

\* obj.field ?? fallback : a property that is absent is undefined.
Field(obj, field, fallback) == IF field \in DOMAIN obj THEN obj[field] ELSE fallback

\* ------------------------------------------------------------- room metrics
\* normalizeValues without the max === min case.
normalizeValuesUnguarded(values) ==
  IF Len(values) = 0 THEN [kind |-> "ok", values |-> <<>>]
  ELSE IF \E k \in 1..Len(values) : ~IsFinite(values[k]) THEN [kind |-> "throw"]
  ELSE LET all == {values[k] : k \in 1..Len(values)}
           min == CHOOSE v \in all : \A w \in all : ~QLess(w, v)
           max == CHOOSE v \in all : \A w \in all : ~QLess(v, w)
       IN [kind |-> "ok",
           values |-> [k \in 1..Len(values) |->
                         QDiv(QSub(values[k], min), QSub(max, min))]]

normalizeValues(values) ==
  IF Len(values) = 0 THEN [kind |-> "ok", values |-> <<>>]
  ELSE IF \E k \in 1..Len(values) : ~IsFinite(values[k]) THEN [kind |-> "throw"]
  ELSE LET all == {values[k] : k \in 1..Len(values)}
           min == CHOOSE v \in all : \A w \in all : ~QLess(w, v)
           max == CHOOSE v \in all : \A w \in all : ~QLess(v, w)
       IN [kind |-> "ok",
           values |-> IF max = min THEN [k \in 1..Len(values) |-> Whole(1)]
                      ELSE [k \in 1..Len(values) |->
                              QDiv(QSub(values[k], min), QSub(max, min))]]

\* calculateSafetyRisk with the two mixed cases exchanged.
calculateSafetyRiskMixedSwapped(room) ==
  LET isGround == room.floor = Whole(0)
      isFront == room.isFrontFacing
  IN IF isGround /\ isFront THEN Whole(1)
     ELSE IF isGround /\ ~isFront THEN Frac(1, 4)
     ELSE IF ~isGround /\ isFront THEN Frac(1, 2)
     ELSE Whole(0)

calculateSafetyRisk(room) ==
  LET isGround == room.floor = Whole(0)
      isFront == room.isFrontFacing
  IN IF isGround /\ isFront THEN Whole(1)
     ELSE IF isGround /\ ~isFront THEN Frac(1, 2)
     ELSE IF ~isGround /\ isFront THEN Frac(1, 4)
     ELSE Whole(0)

buildRoomMetrics(rooms) ==
  LET column(field) == normalizeValues([k \in 1..Len(rooms) |-> rooms[k][field]])
      sizeNorm == column("sizeSqm")
      windowNorm == column("windows")
      attractivenessNorm == column("attractiveness")
      sunlightNorm == column("sunlight")
      storageNorm == column("storage")
      noiseNorm == column("noise")
  IN IF \E norm \in {sizeNorm, windowNorm, attractivenessNorm, sunlightNorm,
                     storageNorm, noiseNorm} : norm.kind = "throw"
     THEN [kind |-> "throw", metrics |-> <<>>]
     ELSE [kind |-> "ok",
           metrics |->
             [index \in 1..Len(rooms) |->
                [size |-> sizeNorm.values[index],
                 windows |-> windowNorm.values[index],
                 attractiveness |-> attractivenessNorm.values[index],
                 sunlight |-> sunlightNorm.values[index],
                 storage |-> storageNorm.values[index],
                 quiet |-> QSub(Whole(1), noiseNorm.values[index]),
                 kitchenProximity |-> IF rooms[index].nearKitchen THEN Whole(1) ELSE Whole(0),
                 ensuite |-> IF rooms[index].ensuite THEN Whole(1) ELSE Whole(0),
                 safetyRisk |-> calculateSafetyRisk(rooms[index]),
                 bedValue |-> IF rooms[index].bedType = "double" THEN Whole(1) ELSE Whole(0),
                 floorLevel |-> IF QLess(Whole(0), rooms[index].floor)
                                THEN Whole(1) ELSE Whole(0)]]]

\* ------------------------------------------------------------- people metadata
\* { ...defaults, ...(overrides ?? {}) }
mergeWeights(defaults, overrides) ==
  [key \in (DOMAIN defaults) \cup (DOMAIN overrides) |->
     IF key \in DOMAIN overrides THEN overrides[key] ELSE defaults[key]]

\* calculatePriorityScore that adds every weight, whatever the flags.
calculatePriorityScoreAllFlags(person, weights) ==
  QAdd(QAdd(weights.foundHouse, weights.handledAgent), weights.attendedViewing)

calculatePriorityScore(person, weights) ==
  QAdd(QAdd(IF person.foundHouse THEN weights.foundHouse ELSE Whole(0),
            IF person.handledAgent THEN weights.handledAgent ELSE Whole(0)),
       IF person.attendedViewing THEN weights.attendedViewing ELSE Whole(0))

NoWeights == [key \in {} |-> Whole(0)]

buildPeopleMeta(persons, defaults) ==
  [k \in 1..Len(persons) |->
     LET person == persons[k]
         preferenceWeights == mergeWeights(defaults.preferenceWeights,
                                           Field(person, "preferenceWeights", NoWeights))
         priorityWeights == mergeWeights(defaults.priorityWeights,
                                         Field(person, "priorityWeights", NoWeights))
         priorityScore == calculatePriorityScore(person, priorityWeights)
     IN [preferenceWeights |-> preferenceWeights,
         priorityWeights |-> priorityWeights,
         priorityScore |-> priorityScore,
         priorityMultiplier |-> QAdd(Whole(1), QDiv(priorityScore, defaults.priorityScale)),
         safetyConcern |-> Field(person, "safetyConcern", defaults.safetyConcern),
         hasSafetyConcern |-> Field(person, "hasSafetyConcern", FALSE),
         kitchenPreference |-> Field(person, "kitchenPreference", "none"),
         bedUpgradeWeight |-> Field(person, "bedUpgradeWeight", defaults.bedUpgradeWeight),
         bedDowngradePenalty |->
           Field(person, "bedDowngradePenalty", defaults.bedDowngradePenalty),
         doubleBedPartnerWeight |->
           Field(person, "doubleBedPartnerWeight", defaults.doubleBedPartnerWeight),
         singleBedInternalCoupleWeight |->
           Field(person, "singleBedInternalCoupleWeight",
                 defaults.singleBedInternalCoupleWeight),
         doubleBedInternalCoupleWeight |->
           Field(person, "doubleBedInternalCoupleWeight",
                 defaults.doubleBedInternalCoupleWeight)]]

\* ------------------------------------------------------------- scoreRoom
\* personHasSafetyConcern without the test of the magnitude.
personHasSafetyConcernAnyMagnitude(meta) == meta.hasSafetyConcern

personHasSafetyConcern(meta) ==
  meta.hasSafetyConcern /\ QLess(Whole(0), meta.safetyConcern)

\* include that lets only the ignored keys through.
includeInverted(overrides, key) == key \in Field(overrides, "ignorePreferences", {})

\* overrides = [ignorePreferences |-> set of keys], or a record without it.
include(overrides, key) == key \notin Field(overrides, "ignorePreferences", {})

\* The running total preferenceScore at the end of scoreRoom.
preferenceScore(metrics, meta, overrides) ==
  LET weights == meta.preferenceWeights
      term(key, value) == IF include(overrides, key) THEN value ELSE Whole(0)
      kitchen == IF meta.kitchenPreference = "close"
                 THEN QMul(metrics.kitchenProximity, weights.kitchenProximity)
                 ELSE IF meta.kitchenPreference = "far"
                 THEN QMul(QSub(Whole(1), metrics.kitchenProximity), weights.kitchenProximity)
                 ELSE Whole(0)
  IN QAdd(QAdd(QAdd(QAdd(QAdd(QAdd(QAdd(QAdd(QAdd(
       term("size", QMul(metrics.size, weights.size)),
       term("windows", QMul(metrics.windows, weights.windows))),
       term("attractiveness", QMul(metrics.attractiveness, weights.attractiveness))),
       term("sunlight", QMul(metrics.sunlight, weights.sunlight))),
       term("storage", QMul(metrics.storage, weights.storage))),
       term("quiet", QMul(metrics.quiet, weights.quiet))),
       term("kitchenProximity", kitchen)),
       term("ensuite", QMul(metrics.ensuite, weights.ensuite))),
       term("floor", QMul(metrics.floorLevel, weights.floor))),
       term("bedType", QMul(metrics.bedValue, weights.bedType)))

\* partnerId ? person.id < partnerId : false, with the comparison reversed.
getsDoubleReversed(person) ==
  LET partnerId == Field(person.relationship, "partnerId", <<>>)
  IN IF Len(partnerId) > 0 THEN StrLess(partnerId, person.id) ELSE FALSE

\* partnerId ? person.id < partnerId : false
getsDouble(person) ==
  LET partnerId == Field(person.relationship, "partnerId", <<>>)
  IN IF Len(partnerId) > 0 THEN StrLess(person.id, partnerId) ELSE FALSE

\* What the internal-couple block adds to bonusScore.
internalCoupleBonus(person, room, meta, houseMeta) ==
  IF /\ person.relationship.status = "partnered"
     /\ person.relationship.partnerLocation = "house"
     /\ houseMeta.hasSingleBed
  THEN IF getsDouble(person) /\ room.bedType = "double"
       THEN meta.doubleBedInternalCoupleWeight
       ELSE IF ~getsDouble(person) /\ room.bedType = "single"
       THEN meta.singleBedInternalCoupleWeight
       ELSE Whole(0)
  ELSE Whole(0)

\* The running total bonusScore at the end of scoreRoom.
bonusScore(person, room, meta, houseMeta) ==
  QAdd(QAdd(IF person.currentBedType = "single" /\ room.bedType = "double"
            THEN meta.bedUpgradeWeight ELSE Whole(0),
            IF /\ person.relationship.status = "partnered"
               /\ person.relationship.partnerLocation = "external"
               /\ room.bedType = "double"
            THEN meta.doubleBedPartnerWeight ELSE Whole(0)),
       internalCoupleBonus(person, room, meta, houseMeta))

\* The running total penaltyScore at the end of scoreRoom.
penaltyScore(person, room, metrics, meta) ==
  QAdd(IF person.currentBedType = "double" /\ room.bedType = "single"
       THEN meta.bedDowngradePenalty ELSE Whole(0),
       IF personHasSafetyConcern(meta)
       THEN QMul(metrics.safetyRisk, meta.safetyConcern) ELSE Whole(0))

\* scoreRoom whose bonus mode multiplies the preference total only.
scoreRoomBonusUnscaled(person, room, metrics, meta, houseMeta, priorityMode, overrides) ==
  LET pref == preferenceScore(metrics, meta, overrides)
      bonus == bonusScore(person, room, meta, houseMeta)
      penalty == penaltyScore(person, room, metrics, meta)
  IN IF priorityMode = "amplify"
     THEN QMul(QSub(QAdd(pref, bonus), penalty), meta.priorityMultiplier)
     ELSE QSub(QAdd(QMul(pref, meta.priorityMultiplier), bonus), penalty)

\* scoreRoom with the two priority modes exchanged.
scoreRoomModesSwapped(person, room, metrics, meta, houseMeta, priorityMode, overrides) ==
  LET pref == preferenceScore(metrics, meta, overrides)
      bonus == bonusScore(person, room, meta, houseMeta)
      penalty == penaltyScore(person, room, metrics, meta)
  IN IF priorityMode = "bonus"
     THEN QMul(QSub(QAdd(pref, bonus), penalty), meta.priorityMultiplier)
     ELSE QSub(QMul(QAdd(pref, bonus), meta.priorityMultiplier), penalty)

scoreRoom(person, room, metrics, meta, houseMeta, priorityMode, overrides) ==
  LET pref == preferenceScore(metrics, meta, overrides)
      bonus == bonusScore(person, room, meta, houseMeta)
      penalty == penaltyScore(person, room, metrics, meta)
  IN IF priorityMode = "amplify"
     THEN QMul(QSub(QAdd(pref, bonus), penalty), meta.priorityMultiplier)
     ELSE QSub(QMul(QAdd(pref, bonus), meta.priorityMultiplier), penalty)

buildDeterministicScores(persons, roomList, roomMetrics, peopleMeta, priorityMode, overrides) ==
  LET houseMeta == [hasSingleBed |->
                      \E k \in 1..Len(roomList) : roomList[k].bedType = "single"]
  IN [personIndex \in 1..Len(persons) |->
        [roomIndex \in 1..Len(roomList) |->
           scoreRoom(persons[personIndex], roomList[roomIndex], roomMetrics[roomIndex],
                     peopleMeta[personIndex], houseMeta, priorityMode, overrides)]]

\* ------------------------------------------------------------- config assertions
isBedType(value) == value \in {"single", "double"}
isGender(value) == value \in {"female", "male", "nonbinary", "other"}

isRelationship(value) ==
  /\ value.status \in {"single", "partnered"}
  /\ value.partnerLocation \in {"none", "external", "house"}

\* TRUE when assertHouseConfig returns without throwing.
assertHouseConfig(roomList) ==
  \A k \in 1..Len(roomList) :
    /\ Len(roomList[k].id) > 0 /\ Len(roomList[k].name) > 0
    /\ "sizeSqm" \in DOMAIN roomList[k]
    /\ isBedType(roomList[k].bedType)

\* TRUE when assertPeopleConfig returns without throwing.
assertPeopleConfig(persons) ==
  \A k \in 1..Len(persons) :
    /\ Len(persons[k].id) > 0 /\ Len(persons[k].name) > 0
    /\ isBedType(persons[k].currentBedType)
    /\ isGender(persons[k].gender)
    /\ isRelationship(persons[k].relationship)

\* ------------------------------------------------------------- state
VARIABLES
  people,   \* the people array (ids), in input order
  rooms,    \* the rooms array (ids), in input order
  scores,   \* the score matrix [personIndex][roomIndex]
  out       \* the last call and what it returned

vars == <<people, rooms, scores, out>>

NoCall == [op |-> "none"]

\* "p1", "p2", ... and "a1", "b2", "c3", ...
PersonId(k) == <<112, 48 + k>>
RoomId(k) == <<96 + k, 48 + k>>

ScoreValues == {Raw(a) : a \in -1..MaxScore}

\* Options the solver is called with: the default, tie-breaking off, and
\* epsilon = -1e-9 and 2e-9.
OptionChoices ==
  {DefaultOptions,
   [deterministicTieBreak |-> FALSE, epsilon |-> 1],
   [deterministicTieBreak |-> TRUE, epsilon |-> -1],
   [deterministicTieBreak |-> TRUE, epsilon |-> 2]}

\* ------------------------------------------------------------- Spec: the solver
Init ==
  /\ \E n \in 0..MaxPeople, m \in 0..MaxRooms :
       /\ people = [i \in 1..n |-> PersonId(i)]
       /\ rooms = [j \in 1..m |-> RoomId(j)]
       /\ scores \in [1..n -> [1..m -> ScoreValues]]
  /\ out = NoCall

CallHungarian ==
  /\ out.op = "none"
  /\ out' = [op |-> "hungarian", res |-> hungarian(scores)]
  /\ UNCHANGED <<people, rooms, scores>>

CallSolveAssignment ==
  /\ out.op = "none"
  /\ \E options \in OptionChoices :
       out' = [op |-> "solveAssignment", options |-> options,
               res |-> solveAssignment(scores, people, rooms, options)]
  /\ UNCHANGED <<people, rooms, scores>>

Next == CallHungarian \/ CallSolveAssignment

Spec == Init /\ [][Next]_vars

\* ------------------------------------------------------------- SpecHung: hungarian step by step
\* out holds the position in hungarian (pc), the row i of the outer loop, the
\* arrays h and the returned value res.
HungSize == MaxOf(NumRows(scores), NumCols(scores))
HungCost == BuildCost(scores, NumRows(scores), NumCols(scores), HungSize)

HungState(pc, i, h, res) == [op |-> "hungarian", pc |-> pc, i |-> i, h |-> h, res |-> res]

\* The two early exits, the cost matrix and the arrays.
HungEnter ==
  /\ out.op = "none"
  /\ out' = IF NumRows(scores) = 0 \/ NumCols(scores) = 0
            THEN HungState("done", 0, HungInit(0), [kind |-> "ok", result |-> <<>>])
            ELSE IF NumRows(scores) > NumCols(scores)
            THEN HungState("failed", 0, HungInit(0), [kind |-> "throw", result |-> <<>>])
            ELSE HungState("loop", 1, HungInit(HungSize), [kind |-> "none", result |-> <<>>])
  /\ UNCHANGED <<people, rooms, scores>>

\* for (let i = 1; i <= size; i++): the test, and the start of the iteration.
HungLoop ==
  /\ out.op = "hungarian" /\ out.pc = "loop"
  /\ out' = IF out.i <= HungSize
            THEN [out EXCEPT !.pc = "search", !.h = StartRow(HungSize, out.i, out.h)]
            ELSE [out EXCEPT !.pc = "result"]
  /\ UNCHANGED <<people, rooms, scores>>

\* One pass of do { ... } while (p[j0] !== 0).
HungSearchPass ==
  /\ out.op = "hungarian" /\ out.pc = "search"
  /\ LET h == SearchPass(HungCost, HungSize, out.h)
     IN out' = [out EXCEPT !.h = h,
                           !.pc = IF h.p[h.j0] # 0 THEN "search" ELSE "augment"]
  /\ UNCHANGED <<people, rooms, scores>>

\* One pass of while (j0 !== 0) { ... }, or its exit and i++.
HungAugmentStep ==
  /\ out.op = "hungarian" /\ out.pc = "augment"
  /\ out' = IF out.h.j0 # 0
            THEN [out EXCEPT !.h = AugmentStep(out.h)]
            ELSE [out EXCEPT !.pc = "loop", !.i = out.i + 1]
  /\ UNCHANGED <<people, rooms, scores>>

\* The result array and the return.
HungBuildResult ==
  /\ out.op = "hungarian" /\ out.pc = "result"
  /\ out' = [out EXCEPT
               !.pc = "done",
               !.res = [kind |-> "ok",
                        result |-> BuildResult(out.h.p, NumRows(scores), NumCols(scores), 1,
                                               [i \in 1..NumRows(scores) |-> -1])]]
  /\ UNCHANGED <<people, rooms, scores>>

NextHung ==
  HungEnter \/ HungLoop \/ HungSearchPass \/ HungAugmentStep \/ HungBuildResult

SpecHung == Init /\ [][NextHung]_vars

\* ------------------------------------------------------------------
\* SpecHungLive: hungarian with the search pass taken loop body by loop body
\* ------------------------------------------------------------------
LiveScoreValues == {Raw(a) : a \in 0..LiveMaxScore}

InitHungLive ==
  /\ \E n \in 0..LiveMaxSize, m \in 0..LiveMaxSize :
       /\ people = [i \in 1..n |-> PersonId(i)]
       /\ rooms = [j \in 1..m |-> RoomId(j)]
       /\ scores \in [1..n -> [1..m -> LiveScoreValues]]
  /\ out = NoCall

\* used[j0] = true; i0 = p[j0]; delta = Infinity; j1 = 0;
HungPassBegin ==
  /\ out.op = "hungarian" /\ out.pc = "search"
  /\ out' = [op |-> "hungarian", pc |-> "scan", i |-> out.i, res |-> out.res,
             h |-> [out.h EXCEPT !.used[out.h.j0] = TRUE],
             i0 |-> out.h.p[out.h.j0], j |-> 1,
             s |-> [minv |-> out.h.minv, way |-> out.h.way, delta |-> Inf, j1 |-> 0]]
  /\ UNCHANGED <<people, rooms, scores>>

\* for (let j = 1; j <= size; j++) { if (!used[j]) {...} }: one column, or the
\* exit of the loop.
HungScanColumn ==
  /\ out.op = "hungarian" /\ out.pc = "scan"
  /\ out' = IF out.j <= HungSize
            THEN [out EXCEPT !.s = ScanColumn(HungCost, out.h, out.i0, out.j, out.s),
                             !.j = out.j + 1]
            ELSE [out EXCEPT !.pc = "update", !.j = 0,
                             !.h = [out.h EXCEPT !.minv = out.s.minv, !.way = out.s.way]]
  /\ UNCHANGED <<people, rooms, scores>>

\* for (let j = 0; j <= size; j++) { ... }: one column, or the exit of the
\* loop, j0 = j1 and the test of while (p[j0] !== 0).
HungUpdatePotential ==
  /\ out.op = "hungarian" /\ out.pc = "update"
  /\ out' = IF out.j <= HungSize
            THEN [out EXCEPT !.h = UpdatePotential(out.s.delta, out.j, out.h),
                             !.j = out.j + 1]
            ELSE HungState(IF out.h.p[out.s.j1] # 0 THEN "search" ELSE "augment",
                           out.i,
                           [out.h EXCEPT !.j0 = out.s.j1, !.passes = out.h.passes + 1],
                           out.res)
  /\ UNCHANGED <<people, rooms, scores>>

NextHungLive ==
  \/ HungEnter \/ HungLoop
  \/ HungPassBegin \/ HungScanColumn \/ HungUpdatePotential
  \/ HungAugmentStep \/ HungBuildResult

\* hungarian is synchronous code: it keeps running until it returns or throws.
SpecHungLive == InitHungLive /\ [][NextHungLive]_vars /\ WF_vars(NextHungLive)

\* ------------------------------------------------------------- SpecOrder: input order
\* Ids that contain the separator ':' :  "a", "a:d", "a:d:d"  and
\* "d:z", "d:d:z", "z".
ColonPeople == << <<97>>, <<97, 58, 100>>, <<97, 58, 100, 58, 100>> >>
ColonRooms == << <<100, 58, 122>>, <<100, 58, 100, 58, 122>>, <<122>> >>

OrderScoreValues == {Raw(0), Raw(1)}

\* Every 0/1 matrix with the plain ids; with the ids that contain ':' the
\* matrices whose scores are all equal (the pure tie-break scenario).
InitOrder ==
  /\ \E n \in 0..MaxPeople, m \in 0..MaxRooms :
       \/ /\ people = [i \in 1..n |-> PersonId(i)]
          /\ rooms = [j \in 1..m |-> RoomId(j)]
          /\ scores \in [1..n -> [1..m -> OrderScoreValues]]
       \/ /\ n <= Len(ColonPeople) /\ m <= Len(ColonRooms)
          /\ people = SubSeq(ColonPeople, 1, n)
          /\ rooms = SubSeq(ColonRooms, 1, m)
          /\ \E v \in OrderScoreValues : scores = [i \in 1..n |-> [j \in 1..m |-> v]]
  /\ out = NoCall

\* The caller lists the same people, rooms and scores in another order.
IndexPermutations(k) == {f \in [1..k -> 1..k] : \A i, j \in 1..k : i # j => f[i] # f[j]}
PermuteSeq(seq, f) == [i \in 1..Len(seq) |-> seq[f[i]]]
PermuteMatrix(matrix, pf, rf) ==
  [i \in 1..Len(matrix) |-> [j \in 1..Len(matrix[i]) |-> matrix[pf[i]][rf[j]]]]

OrderSolve ==
  /\ out.op = "none"
  /\ out' = [op |-> "solveAssignment", options |-> DefaultOptions,
             res |-> solveAssignment(scores, people, rooms, DefaultOptions)]
  /\ UNCHANGED <<people, rooms, scores>>

OrderReorder ==
  /\ out.op = "none"
  /\ \E pf \in IndexPermutations(Len(people)), rf \in IndexPermutations(Len(rooms)) :
       /\ people' = PermuteSeq(people, pf)
       /\ rooms' = PermuteSeq(rooms, rf)
       /\ scores' = PermuteMatrix(scores, pf, rf)
  /\ UNCHANGED out

NextOrder == OrderSolve \/ OrderReorder

SpecOrder == InitOrder /\ [][NextOrder]_vars

\* ------------------------------------------------------------- SpecValidate
\* "a", "A", " a ", "b", "B<tab>"
ValidateIds == {<<97>>, <<65>>, <<32, 97, 32>>, <<98>>, <<66, 9>>}

SeqsUpTo(S, maxLen) == UNION {[1..k -> S] : k \in 0..maxLen}

InitValidate ==
  /\ people \in SeqsUpTo(ValidateIds, MaxPeople)
  /\ rooms \in SeqsUpTo(ValidateIds, MaxRooms)
  /\ scores = <<>>
  /\ out = NoCall

CallValidateUniqueIds ==
  /\ out.op = "none"
  /\ out' = [op |-> "validateUniqueIds", res |-> validateUniqueIds(people, rooms)]
  /\ UNCHANGED <<people, rooms, scores>>

NextValidate == CallValidateUniqueIds

SpecValidate == InitValidate /\ [][NextValidate]_vars

\* ------------------------------------------------------------- SpecScore
FALLBACK_DEFAULTS ==
  [preferenceWeights |->
     [size |-> Whole(4), windows |-> Whole(2), attractiveness |-> Whole(3),
      bedType |-> Whole(5), sunlight |-> Whole(2), storage |-> Whole(2),
      quiet |-> Whole(3), kitchenProximity |-> Whole(2), ensuite |-> Whole(2),
      floor |-> Whole(2)],
   priorityWeights |->
     [foundHouse |-> Whole(6), handledAgent |-> Whole(4), attendedViewing |-> Whole(2)],
   safetyConcern |-> Whole(4),
   bedUpgradeWeight |-> Frac(5, 2),
   bedDowngradePenalty |-> Whole(3),
   doubleBedPartnerWeight |-> Whole(3),
   singleBedInternalCoupleWeight |-> Whole(4),
   doubleBedInternalCoupleWeight |-> Whole(5),
   priorityScale |-> Whole(10)]

createPerson(id) ==
  [id |-> id, name |-> id, gender |-> "other", foundHouse |-> FALSE,
   handledAgent |-> FALSE, attendedViewing |-> FALSE, currentBedType |-> "double",
   relationship |-> [status |-> "single", partnerLocation |-> "none"]]

createRoom(id) ==
  [id |-> id, name |-> id, sizeSqm |-> Whole(15), windows |-> Whole(2),
   attractiveness |-> Whole(5), bedType |-> "double", floor |-> Whole(1),
   isFrontFacing |-> FALSE, noise |-> Whole(3), storage |-> Whole(5),
   sunlight |-> Whole(5), nearKitchen |-> FALSE, ensuite |-> FALSE]

BedTypes == {"single", "double"}
PriorityModes == {"amplify", "bonus"}

\* The relationships a person can declare towards a housemate with id partnerId.
Relationships(partnerId) ==
  {[status |-> "single", partnerLocation |-> "none"],
   [status |-> "partnered", partnerLocation |-> "external"],
   [status |-> "partnered", partnerLocation |-> "house"],
   [status |-> "partnered", partnerLocation |-> "house", partnerId |-> partnerId]}

\* "a", "ab", "B"
ScoreIds == {<<97>>, <<97, 98>>, <<66>>}

NoOverrides == [key \in {} |-> {}]
OverrideChoices == {NoOverrides, [ignorePreferences |-> {"size", "bedType"}]}

Ids(list) == [k \in 1..Len(list) |-> list[k].id]
HouseMetaOf(roomList) ==
  [hasSingleBed |-> \E k \in 1..Len(roomList) : roomList[k].bedType = "single"]

\* Two housemates and two rooms.  The first person's bed, contribution and
\* safety flag vary; the second person carries per-person overrides.
InitScore ==
  /\ \E idX \in ScoreIds, idY \in ScoreIds, bed \in BedTypes,
        found \in BOOLEAN, concerned \in BOOLEAN :
       \E relX \in Relationships(idY),
          relY \in {rel \in Relationships(idX) : rel.partnerLocation # "external"} :
         people =
           << MapSet(MapSet([createPerson(idX) EXCEPT !.relationship = relX,
                                                      !.currentBedType = bed,
                                                      !.foundHouse = found],
                            "hasSafetyConcern", concerned),
                     "kitchenPreference", "close"),
              MapSet(MapSet([createPerson(idY) EXCEPT !.relationship = relY,
                                                      !.handledAgent = TRUE],
                            "singleBedInternalCoupleWeight", Whole(1)),
                     "kitchenPreference", "far") >>
  /\ \E bed1 \in BedTypes, bed2 \in BedTypes, ground \in BOOLEAN :
       rooms =
         << [createRoom(RoomId(1)) EXCEPT !.bedType = bed1, !.sizeSqm = Whole(10),
                                          !.floor = IF ground THEN Whole(0) ELSE Whole(1),
                                          !.isFrontFacing = ground, !.nearKitchen = TRUE],
            [createRoom(RoomId(2)) EXCEPT !.bedType = bed2, !.sizeSqm = Whole(20),
                                          !.noise = Whole(5), !.isFrontFacing = TRUE] >>
  /\ scores = <<>>
  /\ out = NoCall

CallScoreRoom ==
  /\ out.op = "none"
  /\ \E personIndex \in 1..Len(people), roomIndex \in 1..Len(rooms),
        priorityMode \in PriorityModes, overrides \in OverrideChoices :
       out' = [op |-> "scoreRoom", personIndex |-> personIndex, roomIndex |-> roomIndex,
               priorityMode |-> priorityMode, overrides |-> overrides,
               res |-> scoreRoom(people[personIndex], rooms[roomIndex],
                                 buildRoomMetrics(rooms).metrics[roomIndex],
                                 buildPeopleMeta(people, FALLBACK_DEFAULTS)[personIndex],
                                 HouseMetaOf(rooms), priorityMode, overrides)]
  /\ UNCHANGED <<people, rooms, scores>>

CallBuildDeterministicScores ==
  /\ out.op = "none"
  /\ \E priorityMode \in PriorityModes, overrides \in OverrideChoices :
       /\ scores' = buildDeterministicScores(people, rooms, buildRoomMetrics(rooms).metrics,
                                             buildPeopleMeta(people, FALLBACK_DEFAULTS),
                                             priorityMode, overrides)
       /\ out' = [op |-> "buildDeterministicScores", priorityMode |-> priorityMode,
                  overrides |-> overrides]
  /\ UNCHANGED <<people, rooms>>

NextScore == CallScoreRoom \/ CallBuildDeterministicScores

SpecScore == InitScore /\ [][NextScore]_vars

\* ------------------------------------------------------------- SpecTerms
SCORING_PREFERENCE_KEYS ==
  {"size", "windows", "attractiveness", "bedType", "sunlight", "storage", "quiet",
   "kitchenProximity", "ensuite", "floor"}

\* No key ignored, one key ignored, every key ignored.
TermOverrides ==
  {NoOverrides} \cup {[ignorePreferences |-> {key}] : key \in SCORING_PREFERENCE_KEYS}
                \cup {[ignorePreferences |-> SCORING_PREFERENCE_KEYS]}

\* The optional properties hasSafetyConcern and safetyConcern of a Person.
SafetySettings ==
  {EmptyMap,
   [hasSafetyConcern |-> TRUE],
   [hasSafetyConcern |-> TRUE, safetyConcern |-> Whole(0)],
   [hasSafetyConcern |-> TRUE, safetyConcern |-> Whole(-2)],
   [hasSafetyConcern |-> FALSE, safetyConcern |-> Whole(2)]}

\* The optional property kitchenPreference of a Person.
KitchenSettings ==
  {EmptyMap, [kitchenPreference |-> "close"], [kitchenPreference |-> "far"]}

\* The optional property bedUpgradeWeight of a Person.
UpgradeSettings == {EmptyMap, [bedUpgradeWeight |-> Whole(0)]}

\* { ...base, ...extra }
Merge(base, extra) ==
  [k \in (DOMAIN base) \cup (DOMAIN extra) |->
     IF k \in DOMAIN extra THEN extra[k] ELSE base[k]]

\* One person and two rooms.  Every attribute differs between the rooms, so
\* each normalised metric is 1 for one of them; the first room's bed, floor and
\* side vary, the second is a single-bed upper back room.
TermInputs(safetySettings, upgradeSettings) ==
  /\ \E bed \in BedTypes, found \in BOOLEAN,
        rel \in {rel \in Relationships(PersonId(2)) : "partnerId" \in DOMAIN rel
                                                     \/ rel.partnerLocation # "house"},
        safety \in safetySettings, kitchen \in KitchenSettings,
        upgrade \in upgradeSettings :
       people =
         << Merge(Merge(Merge([createPerson(PersonId(1)) EXCEPT !.currentBedType = bed,
                                                                !.foundHouse = found,
                                                                !.relationship = rel],
                              safety), kitchen), upgrade) >>
  /\ \E bed1 \in BedTypes, ground \in BOOLEAN, front \in BOOLEAN :
       rooms =
         << [createRoom(RoomId(1)) EXCEPT !.bedType = bed1,
                                          !.floor = IF ground THEN Whole(0) ELSE Whole(1),
                                          !.isFrontFacing = front,
                                          !.sizeSqm = Whole(20), !.windows = Whole(3),
                                          !.sunlight = Whole(6), !.nearKitchen = TRUE],
            [createRoom(RoomId(2)) EXCEPT !.bedType = "single",
                                          !.attractiveness = Whole(6),
                                          !.storage = Whole(6), !.noise = Whole(1),
                                          !.ensuite = TRUE] >>
  /\ scores = <<>>
  /\ out = NoCall

InitTerms == TermInputs(SafetySettings, UpgradeSettings)

NextTerms == CallScoreRoom

SpecTerms == InitTerms /\ [][NextTerms]_vars

\* ------------------------------------------------------------- SpecIgnore
InitIgnore == TermInputs({EmptyMap, [hasSafetyConcern |-> TRUE]}, {EmptyMap})

CallScoreRoomIgnoring ==
  /\ out.op = "none"
  /\ \E personIndex \in 1..Len(people), roomIndex \in 1..Len(rooms),
        priorityMode \in PriorityModes, overrides \in TermOverrides :
       out' = [op |-> "scoreRoom", personIndex |-> personIndex, roomIndex |-> roomIndex,
               priorityMode |-> priorityMode, overrides |-> overrides,
               res |-> scoreRoom(people[personIndex], rooms[roomIndex],
                                 buildRoomMetrics(rooms).metrics[roomIndex],
                                 buildPeopleMeta(people, FALLBACK_DEFAULTS)[personIndex],
                                 HouseMetaOf(rooms), priorityMode, overrides)]
  /\ UNCHANGED <<people, rooms, scores>>

NextIgnore == CallScoreRoomIgnoring

SpecIgnore == InitIgnore /\ [][NextIgnore]_vars

\* ------------------------------------------------------------- SpecMeta
ContributionFlags == {"foundHouse", "handledAgent", "attendedViewing"}

\* The optional property priorityWeights of a Person: absent, a weight of 0,
\* a negative weight that cancels the default weight of attendedViewing.
PriorityWeightSettings ==
  {EmptyMap,
   [priorityWeights |-> [foundHouse |-> Whole(0)]],
   [priorityWeights |-> [handledAgent |-> Whole(-2)]]}

\* The house defaults with priorityScale 10, 2 and 0.
MetaDefaults ==
  {[FALLBACK_DEFAULTS EXCEPT !.priorityScale = scale] :
     scale \in {Whole(10), Whole(2), Whole(0)}}

\* Two persons with every combination of contribution flags; the first may
\* carry its own priority weights.
InitMeta ==
  /\ \E flagsX \in SUBSET ContributionFlags, flagsY \in SUBSET ContributionFlags,
        weights \in PriorityWeightSettings :
       people =
         << Merge([createPerson(PersonId(1)) EXCEPT
                     !.foundHouse = "foundHouse" \in flagsX,
                     !.handledAgent = "handledAgent" \in flagsX,
                     !.attendedViewing = "attendedViewing" \in flagsX], weights),
            [createPerson(PersonId(2)) EXCEPT
               !.foundHouse = "foundHouse" \in flagsY,
               !.handledAgent = "handledAgent" \in flagsY,
               !.attendedViewing = "attendedViewing" \in flagsY] >>
  /\ rooms = <<>>
  /\ scores = <<>>
  /\ out = NoCall

CallBuildPeopleMeta ==
  /\ out.op = "none"
  /\ \E defaults \in MetaDefaults :
       out' = [op |-> "buildPeopleMeta", defaults |-> defaults,
               res |-> buildPeopleMeta(people, defaults)]
  /\ UNCHANGED <<people, rooms, scores>>

NextMeta == CallBuildPeopleMeta

SpecMeta == InitMeta /\ [][NextMeta]_vars

\* ------------------------------------------------------------- SpecTieBreak
\* "xr", "biw", "c08", "db5", "dxl", "ehf", "alice", p1, p2, p3
TieBreakPersonIds ==
  {<<120, 114>>,
   <<98, 105, 119>>,
   <<99, 48, 56>>,
   <<100, 98, 53>>,
   <<100, 120, 108>>,
   <<101, 104, 102>>,
   <<97, 108, 105, 99, 101>>,
   PersonId(1), PersonId(2), PersonId(3)}

\* "iu9q", "g4sn", "uuh7", "0mdd", "5rjw", "8jja", "room_1", a1, b2, c3
TieBreakRoomIds ==
  {<<105, 117, 57, 113>>,
   <<103, 52, 115, 110>>,
   <<117, 117, 104, 55>>,
   <<48, 109, 100, 100>>,
   <<53, 114, 106, 119>>,
   <<56, 106, 106, 97>>,
   <<114, 111, 111, 109, 95, 49>>,
   RoomId(1), RoomId(2), RoomId(3)}

InitTieBreak ==
  /\ \E personId \in TieBreakPersonIds : people = <<personId>>
  /\ \E roomId \in TieBreakRoomIds : rooms = <<roomId>>
  /\ scores = <<>>
  /\ out = NoCall

\* res is the numerator of the returned value over 0xffffffff, as <<hi, lo>>
\* 16-bit halves.
CallComputeTieBreaker ==
  /\ out.op = "none"
  /\ out' = [op |-> "computeTieBreaker", res |-> computeTieBreaker(people[1], rooms[1])]
  /\ UNCHANGED <<people, rooms, scores>>

NextTieBreak == CallComputeTieBreaker

SpecTieBreak == InitTieBreak /\ [][NextTieBreak]_vars

\* ------------------------------------------------------------- SpecPerturb
\* "alice", "p6"
PerturbPersonIds == {<<97, 108, 105, 99, 101>>, <<112, 54>>}

\* "room_1", "prp3"
PerturbRoomIds == {<<114, 111, 111, 109, 95, 49>>, <<112, 114, 112, 51>>}

\* epsilon = 1e-9 (the default) and 2e-9
PerturbEpsilons == {1, 2}

InitPerturb ==
  /\ people \in SeqsUpTo(PerturbPersonIds, PerturbMaxSize)
  /\ rooms \in SeqsUpTo(PerturbRoomIds, PerturbMaxSize)
  /\ scores \in [1..Len(people) -> [1..Len(rooms) -> ScoreValues]]
  /\ out = NoCall

CallBuildPerturbedScores ==
  /\ out.op = "none"
  /\ \E epsilon \in PerturbEpsilons :
       out' = [op |-> "buildPerturbedScores", epsilon |-> epsilon,
               res |-> buildPerturbedScores(scores, people, rooms, epsilon)]
  /\ UNCHANGED <<people, rooms, scores>>

NextPerturb == CallBuildPerturbedScores

SpecPerturb == InitPerturb /\ [][NextPerturb]_vars

\* ------------------------------------------------------------- SpecLegacy
\* "p1", "p2"
LegacyPersonIds == {PersonId(1), PersonId(2)}

\* "a1", "b2" and the empty string
LegacyRoomIds == {RoomId(1), RoomId(2), <<>>}

LegacyScoreValues == {Raw(0), Raw(1)}

InitLegacy ==
  /\ people \in SeqsUpTo(LegacyPersonIds, LegacyMaxPeople)
  /\ rooms \in SeqsUpTo(LegacyRoomIds, LegacyMaxRooms)
  /\ scores \in [1..Len(people) -> [1..Len(rooms) -> LegacyScoreValues]]
  /\ out = NoCall

CallAssignRooms ==
  /\ out.op = "none"
  /\ out' = [op |-> "assignRooms", res |-> assignRooms(scores, people, rooms)]
  /\ UNCHANGED <<people, rooms, scores>>

NextLegacy == CallAssignRooms

SpecLegacy == InitLegacy /\ [][NextLegacy]_vars

\* ------------------------------------------------------------- SpecMetrics
\* Room sizes: the two extremes of the finite range, 0, 3, 7, NaN, +Infinity.
NormalizeInputs ==
  {Whole(-MaxFinite), Whole(0), Whole(3), Whole(7), Whole(MaxFinite),
   NonFinite, PosInfinity}

\* Basement, ground, first and second floor.
Floors == {Whole(-1), Whole(0), Whole(1), Whole(2)}

InitMetrics ==
  /\ people = <<>>
  /\ \E sizes \in SeqsUpTo(NormalizeInputs, MaxRooms) :
       rooms = [k \in 1..Len(sizes) |-> [createRoom(RoomId(k)) EXCEPT !.sizeSqm = sizes[k]]]
  /\ scores = <<>>
  /\ out = NoCall

\* normalizeValues(sizes), sizes = rooms.map((room) => room.sizeSqm)
CallNormalizeValues ==
  /\ out.op = "none"
  /\ LET sizes == [k \in 1..Len(rooms) |-> rooms[k].sizeSqm]
     IN out' = [op |-> "normalizeValues", values |-> sizes, res |-> normalizeValues(sizes)]
  /\ UNCHANGED <<people, rooms, scores>>

CallCalculateSafetyRisk ==
  /\ out.op = "none"
  /\ \E floor \in Floors, isFrontFacing \in BOOLEAN :
       LET room == [createRoom(RoomId(1)) EXCEPT !.floor = floor,
                                                 !.isFrontFacing = isFrontFacing]
       IN out' = [op |-> "calculateSafetyRisk", room |-> room,
                  res |-> calculateSafetyRisk(room)]
  /\ UNCHANGED <<people, rooms, scores>>

CallBuildRoomMetrics ==
  /\ out.op = "none"
  /\ out' = [op |-> "buildRoomMetrics", res |-> buildRoomMetrics(rooms)]
  /\ UNCHANGED <<people, rooms, scores>>

NextMetrics == CallNormalizeValues \/ CallCalculateSafetyRisk \/ CallBuildRoomMetrics

SpecMetrics == InitMetrics /\ [][NextMetrics]_vars

\* ------------------------------------------------------------- SpecMain: the CLI
\* peopleConfig.defaults of the configurations: whole-number weights.  The
\* rooms below take two sizes and agree on the other measures, so every
\* normalised metric is 0 or 1, every score is a whole number and the solver's
\* numbers hold it exactly.
MainDefaults ==
  [FALLBACK_DEFAULTS EXCEPT !.bedUpgradeWeight = Whole(2), !.priorityScale = Whole(2)]

\* People "p1" (twice, with different beds), "P1", "p2" and one without an id.
MainPeople ==
  {createPerson(PersonId(1)),
   [createPerson(PersonId(1)) EXCEPT !.currentBedType = "single"],
   [createPerson(<<80, 49>>) EXCEPT !.foundHouse = TRUE],
   createPerson(PersonId(2)),
   createPerson(<<>>)}

\* Rooms "a1" (twice), "A1", "b2", one with an unknown bed type, and three
\* rooms "c3" with a number that is not finite: the size NaN, the noise
\* Infinity, the floor Infinity (1e999 in the JSON file).
MainRooms ==
  {createRoom(RoomId(1)),
   [createRoom(RoomId(1)) EXCEPT !.bedType = "single", !.sizeSqm = Whole(20)],
   [createRoom(<<65, 49>>) EXCEPT !.bedType = "single", !.floor = Whole(0),
                                  !.isFrontFacing = TRUE],
   [createRoom(RoomId(2)) EXCEPT !.sizeSqm = Whole(20)],
   [createRoom(RoomId(2)) EXCEPT !.bedType = "bunk"],
   [createRoom(RoomId(3)) EXCEPT !.sizeSqm = NonFinite],
   [createRoom(RoomId(3)) EXCEPT !.noise = PosInfinity],
   [createRoom(RoomId(3)) EXCEPT !.floor = PosInfinity]}

\* Scores a Gemini response can carry.
AiScoreValues == {Whole(0), Whole(1)}

MainStart(mode, priorityMode, scoringOverrides) ==
  [op |-> "main", pc |-> "load", mode |-> mode, priorityMode |-> priorityMode,
   scoringOverrides |-> scoringOverrides, error |-> "none",
   roomMetrics |-> <<>>, peopleMeta |-> <<>>,
   assignment |-> <<>>, totalScore |-> Zero, result |-> <<>>]

InitMain ==
  /\ people \in SeqsUpTo(MainPeople, MainMaxPeople)
  /\ rooms \in SeqsUpTo(MainRooms, MainMaxRooms)
  /\ scores = <<>>
  /\ \/ \E priorityMode \in PriorityModes, scoringOverrides \in OverrideChoices :
          out = MainStart("deterministic", priorityMode, scoringOverrides)
     \/ out = MainStart("gemini", "amplify", NoOverrides)

MainFail(error) == [out EXCEPT !.pc = "failed", !.error = error]

\* readJson, assertHouseConfig, assertPeopleConfig
MainLoad ==
  /\ out.op = "main" /\ out.pc = "load"
  /\ out' = IF assertHouseConfig(rooms) /\ assertPeopleConfig(people)
            THEN [out EXCEPT !.pc = "loaded"]
            ELSE MainFail("config")
  /\ UNCHANGED <<people, rooms, scores>>

\* if (peopleConfig.people.length > houseConfig.rooms.length) throw
MainCheckCounts ==
  /\ out.op = "main" /\ out.pc = "loaded"
  /\ out' = IF Len(people) > Len(rooms) THEN MainFail("count")
            ELSE [out EXCEPT !.pc = "counted"]
  /\ UNCHANGED <<people, rooms, scores>>

\* buildRoomMetrics, buildPeopleMeta
MainBuildMeta ==
  /\ out.op = "main" /\ out.pc = "counted"
  /\ out' = IF buildRoomMetrics(rooms).kind = "throw" THEN MainFail("metrics")
            ELSE [out EXCEPT !.pc = "prepared",
                             !.roomMetrics = buildRoomMetrics(rooms).metrics,
                             !.peopleMeta = buildPeopleMeta(people, MainDefaults)]
  /\ UNCHANGED <<people, rooms, scores>>

\* buildDeterministicScores, or buildAiScores: a matrix of the right shape
\* sent by the model, or an error.
MainScore ==
  /\ out.op = "main" /\ out.pc = "prepared"
  /\ \/ /\ out.mode = "deterministic"
        /\ scores' = buildDeterministicScores(people, rooms, out.roomMetrics,
                                              out.peopleMeta, out.priorityMode,
                                              out.scoringOverrides)
        /\ out' = [out EXCEPT !.pc = "scored"]
     \/ /\ out.mode = "gemini"
        /\ scores' \in [1..Len(people) -> [1..Len(rooms) -> AiScoreValues]]
        /\ out' = [out EXCEPT !.pc = "scored"]
     \/ /\ out.mode = "gemini"
        /\ out' = MainFail("gemini")
        /\ UNCHANGED scores
  /\ UNCHANGED <<people, rooms>>

\* The whole-number score matrix as numbers of the solver.
SolverScores(matrix) ==
  [i \in 1..Len(matrix) |-> [j \in 1..Len(matrix[i]) |-> Raw(matrix[i][j][1])]]

\* const { assignment, totalScore } = assignRooms(...)
MainAssigned(assigned) ==
  IF assigned.kind = "throw" THEN MainFail("assign")
  ELSE [out EXCEPT !.pc = "assigned",
                   !.assignment = assigned.assignment,
                   !.totalScore = assigned.totalScore]

\* assignRooms(scores, peopleConfig.people, houseConfig.rooms)
MainAssign ==
  /\ out.op = "main" /\ out.pc = "scored"
  /\ out' = MainAssigned(assignRooms(SolverScores(scores), Ids(people), Ids(rooms)))
  /\ UNCHANGED <<people, rooms, scores>>

\* assignment.map(...): the rows of the report.
MainReport ==
  /\ out.op = "main" /\ out.pc = "assigned"
  /\ out' = [out EXCEPT
               !.pc = "done",
               !.result = [personIndex \in 1..Len(out.assignment) |->
                             [personId |-> people[personIndex].id,
                              roomId |-> rooms[out.assignment[personIndex] + 1].id,
                              score |-> scores[personIndex][out.assignment[personIndex] + 1]]]]
  /\ UNCHANGED <<people, rooms, scores>>

NextMain ==
  MainLoad \/ MainCheckCounts \/ MainBuildMeta \/ MainScore \/ MainAssign \/ MainReport

SpecMain == InitMain /\ [][NextMain]_vars

\* ------------------------------------------------------------- helpers of the claims
\* All one-to-one assignments of rows 1..n to distinct columns 1..m.
InjAssignments(n, m) ==
  {f \in [1..n -> 1..m] : \A i, j \in 1..n : i # j => f[i] # f[j]}

\* Sum over the rows i..Len(matrix) of matrix[i][f[i]].
RECURSIVE TotalFrom(_, _, _)
TotalFrom(matrix, f, i) ==
  IF i > Len(matrix) THEN Zero
  ELSE NAdd(matrix[i][f[i]], TotalFrom(matrix, f, i + 1))

TotalOf(matrix, f) == TotalFrom(matrix, f, 1)

\* f is a maximum-total one-to-one assignment of matrix.
IsOptimal(matrix, f) ==
  /\ f \in InjAssignments(NumRows(matrix), NumCols(matrix))
  /\ \A g \in InjAssignments(NumRows(matrix), NumCols(matrix)) :
        ~NLess(TotalOf(matrix, f), TotalOf(matrix, g))

DistinctIds(ids) == \A i, j \in 1..Len(ids) : i # j => ids[i] # ids[j]
IdSet(ids) == {ids[i] : i \in 1..Len(ids)}

\* The 1-based column assignment a returned map stands for.
ColumnsOf(map) == [i \in 1..Len(people) |-> FindIndex(rooms, map[people[i]], 1) + 1]

\* ------------------------------------------------------------- C1
\* C1: for every score matrix with 1 <= n <= m, hungarian returns an array of
\* length n of distinct column indices whose total score is the maximum over
\* all one-to-one assignments of rows to distinct columns.
C1_HungarianOptimal ==
  (out.op = "hungarian" /\ 1 <= NumRows(scores) /\ NumRows(scores) <= NumCols(scores))
    => /\ out.res.kind = "ok"
       /\ Len(out.res.result) = NumRows(scores)
       /\ \A i \in 1..NumRows(scores) : out.res.result[i] \in 0..(NumCols(scores) - 1)
       /\ IsOptimal(scores, [i \in 1..NumRows(scores) |-> out.res.result[i] + 1])

\* A 3-row matrix with a negative score whose optimum moves rows 1 and 2 off
\* the diagonal, and an all-equal matrix, have been solved.
C1_Witness ==
  /\ out.op = "hungarian"
  /\ NumRows(scores) = 3
  /\ out.res.kind = "ok" /\ Len(out.res.result) = 3
  /\ out.res.result[1] # 0 /\ out.res.result[2] # 1
  /\ \E i \in 1..3, j \in 1..NumCols(scores) : scores[i][j] = Raw(-1)

\* ------------------------------------------------------------- C2
\* C2: for distinct ids and people.length <= rooms.length, solveAssignment
\* returns a map with exactly one entry per person id, every value the id of an
\* existing room, and no room id the value of two people.
C2_AssignmentIsMatching ==
  (/\ out.op = "solveAssignment"
   /\ DistinctIds(people) /\ DistinctIds(rooms)
   /\ Len(people) <= Len(rooms))
    => /\ out.res.kind = "ok"
       /\ DOMAIN out.res.assignment = IdSet(people)
       /\ \A pid \in IdSet(people) : out.res.assignment[pid] \in IdSet(rooms)
       /\ \A p1, p2 \in IdSet(people) :
             p1 # p2 => out.res.assignment[p1] # out.res.assignment[p2]

\* Two people were assigned among three rooms, one room left over.
C2_Witness ==
  /\ out.op = "solveAssignment"
  /\ Len(people) = 2 /\ Len(rooms) = 3
  /\ out.res.kind = "ok"
  /\ Cardinality({out.res.assignment[pid] : pid \in IdSet(people)}) = 2

\* ------------------------------------------------------------- C4
\* C4: the totalScore solveAssignment returns is the sum over every person of
\* the original scores[personIndex][assignedRoomIndex], whatever the options.
C4_TotalIsUnperturbed ==
  (out.op = "solveAssignment" /\ out.res.kind = "ok")
    => out.res.totalScore = TotalOf(scores, ColumnsOf(out.res.assignment))

\* A perturbed solve with epsilon = 2e-9 returned a non-zero total.
C4_Witness ==
  /\ out.op = "solveAssignment"
  /\ out.options.deterministicTieBreak /\ out.options.epsilon = 2
  /\ Len(people) >= 2
  /\ out.res.kind = "ok"
  /\ out.res.totalScore # Zero

\* ------------------------------------------------------------- C5
\* C5 as stated: whenever n > m, hungarian and solveAssignment both throw.
C5_Original ==
  (out.op \in {"hungarian", "solveAssignment"} /\ Len(people) > Len(rooms))
    => out.res.kind = "throw"

\* C5 amended: whenever n > m solveAssignment throws; hungarian throws when
\* n > m >= 1 and returns the empty array when its rows have no columns.
C5_ThrowsOnTooManyPeople ==
  /\ (out.op = "solveAssignment" /\ Len(people) > Len(rooms))
       => out.res.kind = "throw"
  /\ (out.op = "hungarian" /\ NumRows(scores) > NumCols(scores) /\ NumCols(scores) >= 1)
       => out.res.kind = "throw"
  /\ (out.op = "hungarian" /\ NumRows(scores) > NumCols(scores) /\ NumCols(scores) = 0)
       => out.res = [kind |-> "ok", result |-> <<>>]

\* hungarian was called with three rows and two columns.
C5_Witness ==
  /\ out.op = "hungarian"
  /\ NumRows(scores) = 3 /\ NumCols(scores) = 2
  /\ out.res.kind = "throw"

\* ------------------------------------------------------------- C6
\* C6: with tie-breaking on and the default epsilon 1e-9, on integer scores
\* (raw totals that differ do so by at least 1 > n * epsilon) the assignment
\* selected from the perturbed matrix is a maximum-total assignment of the
\* unperturbed matrix.
C6_PerturbationKeepsOptimum ==
  (/\ out.op = "solveAssignment"
   /\ out.options = DefaultOptions
   /\ 1 <= Len(people) /\ Len(people) <= Len(rooms))
    => /\ out.res.kind = "ok"
       /\ IsOptimal(scores, ColumnsOf(out.res.assignment))

\* The perturbation chose between two raw-optimal assignments while a
\* third assignment scores strictly less.
C6_Witness ==
  /\ out.op = "solveAssignment"
  /\ out.options = DefaultOptions
  /\ Len(people) = 3 /\ Len(rooms) = 3
  /\ out.res.kind = "ok"
  /\ \E g \in InjAssignments(3, 3) :
        /\ g # ColumnsOf(out.res.assignment)
        /\ TotalOf(scores, g) = out.res.totalScore
  /\ \E g \in InjAssignments(3, 3) : NLess(TotalOf(scores, g), out.res.totalScore)

\* ------------------------------------------------------------- C3
\* C3: solveAssignment is independent of input order: for every permutation of
\* the people array and of the rooms array, the score matrix permuted with
\* them, the returned personId -> roomId map is the one of the unpermuted call.
C3_OrderIndependent ==
  (out.op = "solveAssignment" /\ out.res.kind = "ok")
    => \A pf \in IndexPermutations(Len(people)), rf \in IndexPermutations(Len(rooms)) :
          solveAssignment(PermuteMatrix(scores, pf, rf), PermuteSeq(people, pf),
                          PermuteSeq(rooms, rf), out.options).assignment
            = out.res.assignment

\* ------------------------------------------------------------- C8
\* The canonical form of an id, read off directly: the code units between the
\* first and the last unit that is not white space, letters lowercased.
CoreIndices(id) == {k \in 1..Len(id) : ~IsWhiteSpace(id[k])}
MinOf(S) == CHOOSE x \in S : \A y \in S : x <= y
MaxIn(S) == CHOOSE x \in S : \A y \in S : y <= x
CanonicalForm(id) ==
  IF CoreIndices(id) = {} THEN <<>>
  ELSE [k \in 1..(MaxIn(CoreIndices(id)) - MinOf(CoreIndices(id)) + 1) |->
          LET c == id[MinOf(CoreIndices(id)) + k - 1]
          IN IF c \in 65..90 THEN c + 32 ELSE c]

\* Positions of ids whose canonical form equals that of an earlier id.
Colliding(ids) ==
  {k \in 1..Len(ids) : \E e \in 1..(k - 1) : CanonicalForm(ids[e]) = CanonicalForm(ids[k])}

\* The ids at the positions of S, in input order, each prefixed.
RECURSIVE PrefixedAt(_, _, _, _)
PrefixedAt(ids, S, prefix, k) ==
  IF k > Len(ids) THEN <<>>
  ELSE (IF k \in S THEN <<prefix \o ids[k]>> ELSE <<>>) \o PrefixedAt(ids, S, prefix, k + 1)

\* C8: validateUniqueIds returns valid = true with no duplicates exactly when
\* no two people and no two rooms share a canonical (lowercased, trimmed) id;
\* otherwise valid = false and duplicates has one entry, prefixed person: or
\* room:, for every id whose canonical form collides with an earlier id.
C8_ValidateReportsCollisions ==
  (out.op = "validateUniqueIds")
    => /\ out.res.valid = (Colliding(people) = {} /\ Colliding(rooms) = {})
       /\ out.res.valid = (out.res.duplicates = <<>>)
       /\ out.res.duplicates
            = PrefixedAt(people, Colliding(people), PersonPrefix, 1)
                \o PrefixedAt(rooms, Colliding(rooms), RoomPrefix, 1)

\* "a", "A", " a " as people (two collisions, by case and by white space) and
\* a room "a" that collides with no room.
C8_Witness ==
  /\ out.op = "validateUniqueIds"
  /\ people = << <<97>>, <<65>>, <<32, 97, 32>> >>
  /\ rooms = << <<97>>, <<98>> >>
  /\ out.res.valid = FALSE
  /\ out.res.duplicates = <<PersonPrefix \o <<65>>, PersonPrefix \o <<32, 97, 32>> >>

\* ------------------------------------------------------------- C9
\* The arguments of the recorded scoreRoom call.
CalledMetrics == buildRoomMetrics(rooms).metrics[out.roomIndex]
CalledMeta == buildPeopleMeta(people, FALLBACK_DEFAULTS)[out.personIndex]
CalledPreference == preferenceScore(CalledMetrics, CalledMeta, out.overrides)
CalledBonus ==
  bonusScore(people[out.personIndex], rooms[out.roomIndex], CalledMeta, HouseMetaOf(rooms))
CalledPenalty ==
  penaltyScore(people[out.personIndex], rooms[out.roomIndex], CalledMetrics, CalledMeta)

\* 1, 8/5, 2, 1/2
OtherMultipliers == {Whole(1), Frac(8, 5), Whole(2), Frac(1, 2)}

\* C9: scoreRoom combines its three totals by mode: amplify gives
\* (preferenceScore + bonusScore - penaltyScore) * priorityMultiplier, bonus gives
\* (preferenceScore + bonusScore) * priorityMultiplier - penaltyScore, so in
\* bonus mode the amount subtracted for penalties is the same for every
\* priorityMultiplier.
C9_ModeCombination ==
  (out.op = "scoreRoom")
    => LET meta == CalledMeta
           metrics == CalledMetrics
           positive == QAdd(CalledPreference, CalledBonus)
           penalty == CalledPenalty
       IN /\ out.priorityMode = "amplify"
               => out.res = QMul(QSub(positive, penalty), meta.priorityMultiplier)
          /\ out.priorityMode = "bonus"
               => /\ out.res = QSub(QMul(positive, meta.priorityMultiplier), penalty)
                  /\ \A k \in OtherMultipliers :
                       QSub(QMul(positive, k),
                            scoreRoom(people[out.personIndex], rooms[out.roomIndex],
                                      metrics, [meta EXCEPT !.priorityMultiplier = k],
                                      HouseMetaOf(rooms), "bonus", out.overrides))
                         = penalty

\* A bonus-mode call with a positive penalty and a multiplier above 1, where the
\* two modes give different scores.
C9_Witness ==
  /\ out.op = "scoreRoom"
  /\ out.priorityMode = "bonus"
  /\ QLess(Whole(0), CalledPenalty)
  /\ QLess(Whole(0), CalledBonus)
  /\ QLess(Whole(1), CalledMeta.priorityMultiplier)
  /\ out.res # QMul(QSub(QAdd(CalledPreference, CalledBonus), CalledPenalty),
                    CalledMeta.priorityMultiplier)

\* ------------------------------------------------------------- C10
\* s comes before t in lexicographic order of code units.
SortsBefore(s, t) ==
  \E k \in 1..Len(t) :
    /\ \A e \in 1..(k - 1) : e <= Len(s) /\ s[e] = t[e]
    /\ k > Len(s) \/ s[k] < t[k]

PartnerIdOf(person) == Field(person.relationship, "partnerId", <<>>)

\* x and y are partnered in-house, name each other and have different ids.
IsInternalCouple(x, y) ==
  /\ x.relationship.status = "partnered" /\ x.relationship.partnerLocation = "house"
  /\ y.relationship.status = "partnered" /\ y.relationship.partnerLocation = "house"
  /\ PartnerIdOf(x) = y.id /\ PartnerIdOf(y) = x.id
  /\ x.id # y.id

\* The couple with the two ids exchanged.
IdsSwapped(persons) ==
  << [persons[1] EXCEPT !.id = persons[2].id, !.relationship.partnerId = persons[1].id],
     [persons[2] EXCEPT !.id = persons[1].id, !.relationship.partnerId = persons[2].id] >>

\* What being in the couple adds to the bonus total of persons[i] for rooms[j].
CoupleGain(persons, i, j) ==
  LET meta == buildPeopleMeta(persons, FALLBACK_DEFAULTS)[i]
      alone == [persons[i] EXCEPT !.relationship =
                                    [status |-> "single", partnerLocation |-> "none"]]
  IN QSub(bonusScore(persons[i], rooms[j], meta, HouseMetaOf(rooms)),
          bonusScore(alone, rooms[j], meta, HouseMetaOf(rooms)))

\* persons[d] gets the double-bed couple bonus on double rooms only, persons[s]
\* the single-bed couple bonus on single rooms only.
RolesAre(persons, d, s) ==
  LET meta == buildPeopleMeta(persons, FALLBACK_DEFAULTS)
  IN \A j \in 1..Len(rooms) :
       /\ CoupleGain(persons, d, j)
            = IF rooms[j].bedType = "double"
              THEN meta[d].doubleBedInternalCoupleWeight ELSE Whole(0)
       /\ CoupleGain(persons, s, j)
            = IF rooms[j].bedType = "single"
              THEN meta[s].singleBedInternalCoupleWeight ELSE Whole(0)

\* C10: for an in-house couple with different ids who name each other, in a
\* house with a single-bed room, the partner whose id sorts first gets the
\* double-bed couple bonus (double rooms only) and the other the single-bed
\* couple bonus (single rooms only); exchanging the ids exchanges the roles.
\* The scores of the matrix carry these bonuses scaled by the multiplier.
C10_CoupleBonusSplit ==
  (/\ out.op = "buildDeterministicScores"
   /\ IsInternalCouple(people[1], people[2])
   /\ HouseMetaOf(rooms).hasSingleBed)
    => LET first == IF SortsBefore(people[1].id, people[2].id) THEN 1 ELSE 2
           other == 3 - first
           meta == buildPeopleMeta(people, FALLBACK_DEFAULTS)
           metrics == buildRoomMetrics(rooms).metrics
           alone(i) == [people[i] EXCEPT !.relationship =
                                           [status |-> "single", partnerLocation |-> "none"]]
           scoreAlone(i, j) == scoreRoom(alone(i), rooms[j], metrics[j], meta[i],
                                         HouseMetaOf(rooms), out.priorityMode, out.overrides)
       IN /\ RolesAre(people, first, other)
          /\ RolesAre(IdsSwapped(people), other, first)
          /\ \A i \in 1..2, j \in 1..Len(rooms) :
               QSub(scores[i][j], scoreAlone(i, j))
                 = QMul(CoupleGain(people, i, j), meta[i].priorityMultiplier)

\* A couple "B" / "ab" (the second person's id sorts first only by code unit)
\* scored in a house with one single and one double room.
C10_Witness ==
  /\ out.op = "buildDeterministicScores"
  /\ IsInternalCouple(people[1], people[2])
  /\ people[1].id = <<97, 98>> /\ people[2].id = <<66>>
  /\ rooms[1].bedType = "single" /\ rooms[2].bedType = "double"
  /\ CoupleGain(people, 2, 2) = Whole(5)
  /\ CoupleGain(people, 1, 1) = Whole(4)
  /\ CoupleGain(people, 1, 2) = Whole(0)

\* ------------------------------------------------------------- C7
\* C7: main evaluates validateUniqueIds on the loaded people and rooms before
\* scoring and solving, so a configuration with two people or two rooms of the
\* same canonical id fails the run and never reaches scoring or solving.
C7_DuplicateIdsNeverScored ==
  (out.op = "main" /\ out.pc \in {"scored", "assigned", "done"})
    => validateUniqueIds(Ids(people), Ids(rooms)).valid

\* ------------------------------------------------------------- C11
\* persons[i] is partnered in-house and its partnerId names another person
\* of the list.
NamesHousemate(persons, i) ==
  /\ persons[i].relationship.status = "partnered"
  /\ persons[i].relationship.partnerLocation = "house"
  /\ PartnerIdOf(persons[i]) # persons[i].id
  /\ \E k \in 1..Len(persons) : k # i /\ persons[k].id = PartnerIdOf(persons[i])

\* What bonusScore holds for persons[i] and rooms[j] beyond the bed-upgrade and
\* the external-partner bonus.
CoupleShare(persons, i, j) ==
  LET meta == buildPeopleMeta(persons, FALLBACK_DEFAULTS)[i]
      upgrade == IF persons[i].currentBedType = "single" /\ rooms[j].bedType = "double"
                 THEN meta.bedUpgradeWeight ELSE Whole(0)
      external == IF /\ persons[i].relationship.status = "partnered"
                     /\ persons[i].relationship.partnerLocation = "external"
                     /\ rooms[j].bedType = "double"
                  THEN meta.doubleBedPartnerWeight ELSE Whole(0)
  IN QSub(bonusScore(persons[i], rooms[j], meta, HouseMetaOf(rooms)),
          QAdd(upgrade, external))

\* C11: scoreRoom adds an internal-couple bonus only when the person is
\* partnered in-house with a partnerId naming a different person and the house
\* has a single-bed room; in every other case (an absent partnerId, no
\* single-bed room, ...) no couple bonus is added for any room.
C11_CoupleBonusOnlyForCouples ==
  (/\ out.op = "scoreRoom"
   /\ ~(NamesHousemate(people, out.personIndex) /\ HouseMetaOf(rooms).hasSingleBed))
    => CoupleShare(people, out.personIndex, out.roomIndex) = Whole(0)

\* ------------------------------------------------------------- C13
RiskOf(floor, isFrontFacing) ==
  calculateSafetyRisk([createRoom(RoomId(1)) EXCEPT !.floor = floor,
                                                    !.isFrontFacing = isFrontFacing])

\* C13: calculateSafetyRisk takes exactly four values, determined only by
\* (floor == 0, isFrontFacing), strictly ordered upper-back < upper-front <
\* ground-back < ground-front, and making a room ground-floor or front-facing
\* never lowers its risk.
C13_SafetyRiskLevels ==
  (out.op = "calculateSafetyRisk")
    => /\ \A floor \in Floors :
            (floor = Whole(0)) = (out.room.floor = Whole(0))
              => RiskOf(floor, out.room.isFrontFacing) = out.res
       /\ Cardinality({RiskOf(floor, front) : floor \in Floors, front \in BOOLEAN}) = 4
       /\ \A upper \in Floors \ {Whole(0)} :
            /\ QLess(RiskOf(upper, FALSE), RiskOf(upper, TRUE))
            /\ QLess(RiskOf(upper, TRUE), RiskOf(Whole(0), FALSE))
            /\ QLess(RiskOf(Whole(0), FALSE), RiskOf(Whole(0), TRUE))
       /\ ~QLess(RiskOf(Whole(0), out.room.isFrontFacing), out.res)
       /\ ~QLess(RiskOf(out.room.floor, TRUE), out.res)

\* The risk of a basement front room has been computed: an upper-front room.
C13_Witness ==
  /\ out.op = "calculateSafetyRisk"
  /\ out.room.floor = Whole(-1) /\ out.room.isFrontFacing
  /\ out.res = Frac(1, 4)

\* ------------------------------------------------------------- C14
AllFinite(values) == \A k \in 1..Len(values) : IsFinite(values[k])

AllEqual(values) == \A k, l \in 1..Len(values) : values[k] = values[l]

InUnitInterval(x) == IsFinite(x) /\ ~QLess(x, Whole(0)) /\ ~QLess(Whole(1), x)

\* C14: for every non-empty finite input whose values are not all equal,
\* normalizeValues returns an array of the same length with every value in
\* [0,1]; every minimum maps to 0, every maximum maps to 1 and the order of
\* the values is preserved.
C14_NormalizedInUnitInterval ==
  (/\ out.op = "normalizeValues"
   /\ Len(out.values) > 0 /\ AllFinite(out.values) /\ ~AllEqual(out.values))
    => /\ out.res.kind = "ok"
       /\ Len(out.res.values) = Len(out.values)
       /\ \A k \in 1..Len(out.values) :
            /\ InUnitInterval(out.res.values[k])
            /\ (\A l \in 1..Len(out.values) : ~QLess(out.values[l], out.values[k]))
                 => out.res.values[k] = Whole(0)
            /\ (\A l \in 1..Len(out.values) : ~QLess(out.values[k], out.values[l]))
                 => out.res.values[k] = Whole(1)
            /\ \A l \in 1..Len(out.values) :
                 QLess(out.values[k], out.values[l])
                   => ~QLess(out.res.values[l], out.res.values[k])

\* ------------------------------------------------------------- C15
\* C15: when all input values are identical (a single value included) every
\* output of normalizeValues is exactly 1, and an empty input yields an empty
\* output without error.
C15_DegenerateInputs ==
  (/\ out.op = "normalizeValues"
   /\ AllFinite(out.values) /\ AllEqual(out.values))
    => /\ out.res.kind = "ok"
       /\ Len(out.res.values) = Len(out.values)
       /\ \A k \in 1..Len(out.values) : out.res.values[k] = Whole(1)

\* Two rooms of the same size have been normalised.
C15_Witness ==
  /\ out.op = "normalizeValues"
  /\ Len(out.values) = 2 /\ out.values[1] = Whole(7) /\ out.values[2] = Whole(7)
  /\ out.res = [kind |-> "ok", values |-> <<Whole(1), Whole(1)>>]

\* ------------------------------------------------------------- C12
\* The person is flagged as safety-concerned: hasSafetyConcern is true and the
\* magnitude in force (the person's own, else the house default) is positive.
Flagged(person) ==
  /\ Field(person, "hasSafetyConcern", FALSE)
  /\ QLess(Whole(0), Field(person, "safetyConcern", FALLBACK_DEFAULTS.safetyConcern))

\* What penaltyScore holds for the recorded call beyond the bed-downgrade
\* penalty.
SafetyShare ==
  LET person == people[out.personIndex]
      room == rooms[out.roomIndex]
      downgrade == IF person.currentBedType = "double" /\ room.bedType = "single"
                   THEN CalledMeta.bedDowngradePenalty ELSE Whole(0)
  IN QSub(CalledPenalty, downgrade)

\* C12: the safety penalty of scoreRoom is metrics.safetyRisk *
\* meta.safetyConcern and is in the penalty total only for a person flagged as
\* safety-concerned; for every other person it is 0 for every room, and for a
\* flagged person it is 0 for an upper-floor back-facing room.
C12_SafetyPenalty ==
  (out.op = "scoreRoom")
    => LET person == people[out.personIndex]
           room == rooms[out.roomIndex]
           share == SafetyShare
           rest == QSub(CalledPenalty, share)
       IN /\ Flagged(person)
               => share = QMul(CalledMetrics.safetyRisk, CalledMeta.safetyConcern)
          /\ ~Flagged(person) => share = Whole(0)
          /\ (room.floor # Whole(0) /\ ~room.isFrontFacing) => share = Whole(0)
          /\ out.priorityMode = "amplify"
               => out.res = QMul(QSub(QAdd(CalledPreference, CalledBonus),
                                      QAdd(rest, share)),
                                 CalledMeta.priorityMultiplier)
          /\ out.priorityMode = "bonus"
               => out.res = QSub(QMul(QAdd(CalledPreference, CalledBonus),
                                      CalledMeta.priorityMultiplier),
                                 QAdd(rest, share))

\* A flagged person with the default magnitude 4 scored for a ground-floor back
\* room: the penalty is 1/2 * 4.
C12_Witness ==
  /\ out.op = "scoreRoom"
  /\ Flagged(people[out.personIndex])
  /\ rooms[out.roomIndex].floor = Whole(0) /\ ~rooms[out.roomIndex].isFrontFacing
  /\ SafetyShare = Whole(2)

\* ------------------------------------------------------------- C17
\* The score of the recorded call for the same person with a double bed.
ScoreWithDoubleBed ==
  scoreRoom([people[out.personIndex] EXCEPT !.currentBedType = "double"],
            rooms[out.roomIndex], CalledMetrics, CalledMeta, HouseMetaOf(rooms),
            out.priorityMode, out.overrides)

UpgradeCase ==
  /\ out.op = "scoreRoom"
  /\ rooms[out.roomIndex].bedType = "double"
  /\ people[out.personIndex].currentBedType = "single"

\* C17 as stated: for a double room a single-bed person scores strictly higher
\* than the same person with a double bed, by bedUpgradeWeight times the
\* priority multiplier in amplify mode and by bedUpgradeWeight in bonus mode.
C17_Original ==
  UpgradeCase
    => /\ QLess(ScoreWithDoubleBed, out.res)
       /\ QSub(out.res, ScoreWithDoubleBed)
            = IF out.priorityMode = "amplify"
              THEN QMul(CalledMeta.bedUpgradeWeight, CalledMeta.priorityMultiplier)
              ELSE CalledMeta.bedUpgradeWeight

\* C17: for a double room the score of a single-bed person exceeds the score of
\* the same person with a double bed by exactly bedUpgradeWeight times the
\* priority multiplier, in both modes; it is strictly higher whenever that
\* product is positive.
C17_UpgradeDifference ==
  UpgradeCase
    => LET gain == QMul(CalledMeta.bedUpgradeWeight, CalledMeta.priorityMultiplier)
       IN /\ QSub(out.res, ScoreWithDoubleBed) = gain
          /\ QLess(Whole(0), gain) => QLess(ScoreWithDoubleBed, out.res)
          /\ gain = Whole(0) => out.res = ScoreWithDoubleBed

\* A bonus-mode call for a single-bed person who found the house and a double
\* room: the gain is 5/2 * 8/5 = 4.
C17_Witness ==
  /\ UpgradeCase
  /\ out.priorityMode = "bonus"
  /\ CalledMeta.priorityMultiplier = Frac(8, 5)
  /\ QSub(out.res, ScoreWithDoubleBed) = Whole(4)

\* ------------------------------------------------------------- C18
\* The term scoreRoom adds to preferenceScore for a key.
TermOf(key, metrics, meta) ==
  LET weights == meta.preferenceWeights
  IN IF key = "kitchenProximity"
     THEN IF meta.kitchenPreference = "close"
          THEN QMul(metrics.kitchenProximity, weights.kitchenProximity)
          ELSE IF meta.kitchenPreference = "far"
          THEN QMul(QSub(Whole(1), metrics.kitchenProximity), weights.kitchenProximity)
          ELSE Whole(0)
     ELSE IF key = "floor" THEN QMul(metrics.floorLevel, weights.floor)
     ELSE IF key = "bedType" THEN QMul(metrics.bedValue, weights.bedType)
     ELSE QMul(metrics[key], weights[key])

\* metric * resolved weight, for every key.
ProductOf(key, metrics, meta) ==
  IF key = "kitchenProximity"
  THEN QMul(metrics.kitchenProximity, meta.preferenceWeights.kitchenProximity)
  ELSE TermOf(key, metrics, meta)

RECURSIVE TermSum(_, _, _)
TermSum(keys, metrics, meta) ==
  IF keys = {} THEN Whole(0)
  ELSE LET key == CHOOSE k \in keys : TRUE
       IN QAdd(TermOf(key, metrics, meta), TermSum(keys \ {key}, metrics, meta))

RECURSIVE ProductSum(_, _, _)
ProductSum(keys, metrics, meta) ==
  IF keys = {} THEN Whole(0)
  ELSE LET key == CHOOSE k \in keys : TRUE
       IN QAdd(ProductOf(key, metrics, meta), ProductSum(keys \ {key}, metrics, meta))

\* The score of the recorded call without any override.
ScoreWithoutOverrides ==
  scoreRoom(people[out.personIndex], rooms[out.roomIndex], CalledMetrics, CalledMeta,
            HouseMetaOf(rooms), out.priorityMode, NoOverrides)

\* C18 as stated: ignoring a key removes metric * resolved weight of that key
\* from preferenceScore and changes nothing else.
C18_Original ==
  (out.op = "scoreRoom")
    => LET metrics == CalledMetrics
           meta == CalledMeta
           ignored == Field(out.overrides, "ignorePreferences", {})
           removed == ProductSum(ignored, metrics, meta)
       IN /\ preferenceScore(metrics, meta, out.overrides)
               = QSub(preferenceScore(metrics, meta, NoOverrides), removed)
          /\ out.res = QSub(scoreRoom(people[out.personIndex], rooms[out.roomIndex],
                                      metrics, meta, HouseMetaOf(rooms),
                                      out.priorityMode, NoOverrides),
                            QMul(removed, meta.priorityMultiplier))

\* C18: ignoring a key removes exactly the term scoreRoom adds for that key
\* (metric * resolved weight; for kitchenProximity the directional term: the
\* metric for "close", its complement for "far", nothing for "none") and
\* changes nothing else, so the score drops by that term times the priority
\* multiplier; with all ten keys ignored preferenceScore is 0.
C18_IgnoreRemovesTerm ==
  (out.op = "scoreRoom")
    => LET metrics == CalledMetrics
           meta == CalledMeta
           ignored == Field(out.overrides, "ignorePreferences", {})
           removed == TermSum(ignored, metrics, meta)
           kept == TermSum(SCORING_PREFERENCE_KEYS \ ignored, metrics, meta)
           pref == preferenceScore(metrics, meta, out.overrides)
       IN /\ pref = kept
          /\ pref = QSub(preferenceScore(metrics, meta, NoOverrides), removed)
          /\ out.res = QSub(scoreRoom(people[out.personIndex], rooms[out.roomIndex],
                                      metrics, meta, HouseMetaOf(rooms),
                                      out.priorityMode, NoOverrides),
                            QMul(removed, meta.priorityMultiplier))
          /\ ignored = SCORING_PREFERENCE_KEYS => pref = Whole(0)

\* A call that ignores only kitchenProximity for a person who prefers to be far
\* from the kitchen and a room away from it: the term 1 * 2 is gone.
C18_Witness ==
  /\ out.op = "scoreRoom"
  /\ out.overrides = [ignorePreferences |-> {"kitchenProximity"}]
  /\ CalledMeta.kitchenPreference = "far"
  /\ ~rooms[out.roomIndex].nearKitchen
  /\ QSub(ScoreWithoutOverrides, out.res) = QMul(Whole(2), CalledMeta.priorityMultiplier)

\* ------------------------------------------------------------- C19
\* The priority weight in force for a flag: the person's own, else the default.
ResolvedPriorityWeight(person, defaults, flag) ==
  Field(Field(person, "priorityWeights", EmptyMap), flag, defaults.priorityWeights[flag])

RECURSIVE WeightSum(_, _, _)
WeightSum(person, defaults, flags) ==
  IF flags = {} THEN Whole(0)
  ELSE LET flag == CHOOSE f \in flags : TRUE
       IN QAdd(ResolvedPriorityWeight(person, defaults, flag),
               WeightSum(person, defaults, flags \ {flag}))

TrueFlags(person) == {flag \in ContributionFlags : person[flag]}

\* C19 as stated: priorityScore is the sum of the resolved weights of the true
\* flags, priorityMultiplier is 1 + priorityScore / priorityScale, and the
\* multiplier is exactly 1 if and only if no contribution flag is true.
C19_Original ==
  (out.op = "buildPeopleMeta")
    => \A k \in 1..Len(people) :
         /\ out.res[k].priorityScore
              = WeightSum(people[k], out.defaults, TrueFlags(people[k]))
         /\ out.res[k].priorityMultiplier
              = QAdd(Whole(1), QDiv(out.res[k].priorityScore, out.defaults.priorityScale))
         /\ (out.res[k].priorityMultiplier = Whole(1)) = (TrueFlags(people[k]) = {})

\* C19: priorityScore is the sum of the resolved weights of the true flags and
\* priorityMultiplier is 1 + priorityScore / priorityScale; for a priorityScale
\* other than 0 the multiplier is exactly 1 if and only if priorityScore is 0,
\* which, when the resolved weights of the true flags are all positive, is the
\* case if and only if no contribution flag is true.
C19_PriorityMultiplier ==
  (out.op = "buildPeopleMeta")
    => \A k \in 1..Len(people) :
         LET score == out.res[k].priorityScore
             multiplier == out.res[k].priorityMultiplier
             flags == TrueFlags(people[k])
         IN /\ score = WeightSum(people[k], out.defaults, flags)
            /\ multiplier = QAdd(Whole(1), QDiv(score, out.defaults.priorityScale))
            /\ out.defaults.priorityScale # Whole(0)
                 => /\ (multiplier = Whole(1)) = (score = Whole(0))
                    /\ (\A flag \in flags :
                          QLess(Whole(0),
                                ResolvedPriorityWeight(people[k], out.defaults, flag)))
                         => (multiplier = Whole(1)) = (flags = {})

\* The metadata of a person who found the house and attended the viewing,
\* with the default weights and scale: 1 + (6 + 2) / 10.
C19_Witness ==
  /\ out.op = "buildPeopleMeta"
  /\ TrueFlags(people[2]) = {"foundHouse", "attendedViewing"}
  /\ out.defaults.priorityScale = Whole(10)
  /\ out.res[2].priorityScore = Whole(8)
  /\ out.res[2].priorityMultiplier = Frac(9, 5)

\* ------------------------------------------------------------- C20
\* C20: computeTieBreaker returns the unsigned 32-bit FNV-1a hash of
\* "<personId>:<roomId>" divided by 0xffffffff, and the result is at least 0
\* and strictly less than 1: the hash, the numerator, is below 0xffffffff.
C20_TieBreakerBelowOne ==
  (out.op = "computeTieBreaker")
    => /\ out.res = fnv1aHash(people[1] \o Colon \o rooms[1])
       /\ out.res[1] \in 0..(Limb - 1) /\ out.res[2] \in 0..(Limb - 1)
       /\ ~(out.res[1] = Limb - 1 /\ out.res[2] = Limb - 1)

\* ------------------------------------------------------------- C16
\* The properties of a Room that are numbers.
NumericAttributes ==
  {"sizeSqm", "windows", "attractiveness", "floor", "noise", "storage", "sunlight"}

HasNonFinite(roomList, attributes) ==
  \E k \in 1..Len(roomList) : \E attribute \in attributes :
    ~IsFinite(roomList[k][attribute])

\* The run of main never got past buildRoomMetrics and produced nothing; if it
\* got as far as buildRoomMetrics, it failed there.
StoppedInMetrics ==
  /\ out.pc \in {"load", "loaded", "counted", "failed"}
  /\ out.roomMetrics = <<>> /\ scores = <<>> /\ out.assignment = <<>>
  /\ out.result = <<>>
  /\ (/\ out.pc = "failed"
      /\ assertHouseConfig(rooms) /\ assertPeopleConfig(people)
      /\ Len(people) <= Len(rooms))
       => out.error = "metrics"

TimesTieBreaker(k, tb) ==
  LET lo == k * tb[2]
  IN <<0, k * tb[1] + (lo \div Limb), lo % Limb>>

\* C21: buildPerturbedScores with epsilon > 0 returns a matrix of the same
\* shape in which every cell differs from the original by epsilon *
\* computeTieBreaker(personId, roomId), a change strictly greater than 0 and
\* strictly less than 10 * epsilon.
C21_PerturbationBounds ==
  (out.op = "buildPerturbedScores" /\ out.epsilon > 0)
    => /\ Len(out.res) = Len(scores)
       /\ \A i \in 1..Len(scores) :
            /\ Len(out.res[i]) = Len(scores[i])
            /\ \A j \in 1..Len(scores[i]) :
                 LET change == NSub(out.res[i][j], scores[i][j])
                 IN /\ change = TimesTieBreaker(out.epsilon,
                                                fnv1aHash(people[i] \o Colon \o rooms[j]))
                    /\ NLess(Zero, change)
                    /\ NLess(change, TimesTieBreaker(10 * out.epsilon,
                                                     <<Limb - 1, Limb - 1>>))

\* ------------------------------------------------------------- C22
EmptyResult == [kind |-> "ok", assignment |-> EmptyMap, totalScore |-> Zero]

\* C22 as stated: hungarian returns [] when the matrix has no rows or its rows
\* have no columns, and solveAssignment returns an empty map with totalScore 0
\* when the people are empty or the rooms are empty.
C22_Original ==
  /\ (out.op = "hungarian" /\ (NumRows(scores) = 0 \/ NumCols(scores) = 0))
       => out.res = [kind |-> "ok", result |-> <<>>]
  /\ (out.op = "solveAssignment" /\ (Len(people) = 0 \/ Len(rooms) = 0))
       => out.res = EmptyResult

\* C22: hungarian returns [] when the matrix has no rows or its rows have no
\* columns; solveAssignment returns an empty map with totalScore 0 when the
\* people are empty, whatever the rooms, and throws when the rooms are empty
\* and the people are not.
C22_DegenerateInputs ==
  /\ (out.op = "hungarian" /\ (NumRows(scores) = 0 \/ NumCols(scores) = 0))
       => out.res = [kind |-> "ok", result |-> <<>>]
  /\ (out.op = "solveAssignment" /\ Len(people) = 0)
       => out.res = EmptyResult
  /\ (out.op = "solveAssignment" /\ Len(people) > 0 /\ Len(rooms) = 0)
       => out.res.kind = "throw"

\* hungarian was called with two rows without columns and returned [].
C22_Witness ==
  /\ out.op = "hungarian"
  /\ NumRows(scores) = 2 /\ NumCols(scores) = 0
  /\ out.res = [kind |-> "ok", result |-> <<>>]

\* ------------------------------------------------------------- C23
\* C23: for people and rooms with pairwise distinct ids and people.length <=
\* rooms.length, assignRooms returns an array a of length people.length with
\* rooms[a[i]].id equal to solveAssignment's room id for people[i] for every
\* i, and the same totalScore.
C23_IndexBasedView ==
  (/\ out.op = "assignRooms"
   /\ DistinctIds(people) /\ DistinctIds(rooms)
   /\ Len(people) <= Len(rooms))
    => LET solved == solveAssignment(scores, people, rooms, DefaultOptions)
       IN /\ solved.kind = "ok"
          /\ out.res.kind = "ok"
          /\ Len(out.res.assignment) = Len(people)
          /\ \A i \in 1..Len(people) :
               /\ out.res.assignment[i] \in 0..(Len(rooms) - 1)
               /\ rooms[out.res.assignment[i] + 1] = solved.assignment[people[i]]
          /\ out.res.totalScore = solved.totalScore

\* ------------------------------------------------------------- C25
\* hungarian is past its early exits.
HungRunning ==
  /\ out.op = "hungarian" /\ out.pc \in {"loop", "search", "augment", "result", "done"}
  /\ NumRows(scores) > 0 /\ NumCols(scores) > 0

\* The rows that p assigns to the columns 1..size.
MatchedRows == {out.h.p[j] : j \in 1..HungSize} \ {0}

\* No row is assigned to two columns of 1..size.
InjectiveMatching ==
  \A j, k \in 1..HungSize : (j # k /\ out.h.p[j] # 0) => out.h.p[j] # out.h.p[k]

\* The outer iterations completed so far.
RowsDone == IF out.pc \in {"search", "augment"} THEN out.i - 1
            ELSE IF out.pc = "loop" THEN out.i - 1
            ELSE HungSize

\* C25: after the outer iteration for row i, p on the columns 1..size is an
\* injective partial matching of exactly the rows 1..i; a row matched in an
\* earlier iteration stays matched through every later search and
\* augmentation, and after the last iteration every real row is matched to a
\* real column, so the result holds no -1.
C25_MatchingGrows ==
  HungRunning
    => /\ out.pc \in {"loop", "search", "result", "done"}
            => MatchedRows = 1..RowsDone /\ InjectiveMatching
       /\ out.pc = "augment" => (1..RowsDone) \subseteq MatchedRows
       /\ out.pc = "done"
            => /\ Len(out.res.result) = NumRows(scores)
               /\ \A r \in 1..NumRows(scores) :
                    /\ out.res.result[r] \in 0..(NumCols(scores) - 1)
                    /\ out.h.p[out.res.result[r] + 1] = r

\* A row matched in the first iteration has been moved to another column by
\* the augmentation of a later row, and the run has returned.
C25_Witness ==
  /\ out.op = "hungarian" /\ out.pc = "done"
  /\ NumRows(scores) = 3 /\ NumCols(scores) = 3
  /\ out.res.result[1] # 0
  /\ scores[1][1] = Raw(MaxScore) /\ scores[1][2] = Raw(MaxScore)
  /\ \A r \in 1..3 : out.res.result[r] # -1

\* ------------------------------------------------------------- C26
\* u[i] + v[j] <= cost[i][j] for the rows of R and every column, with
\* equality when column j is assigned row i.
DualFeasible(R) ==
  \A i \in R : \A j \in 1..HungSize :
    LET sum == NAdd(out.h.u[i], out.h.v[j])
    IN /\ ~NLess(HungCost[i][j], sum)
       /\ out.h.p[j] = i => sum = HungCost[i][j]

\* The search has updated the potentials at least once for the current row,
\* or the outer iteration has just ended.
AfterUpdate ==
  /\ out.op = "hungarian"
  /\ \/ out.pc = "search" /\ out.h.passes > 0
     \/ out.pc \in {"augment", "result"}
     \/ out.pc = "loop" /\ out.i > 1

\* The rows whose outer iteration has started.
StartedRows == IF out.pc = "loop" THEN 1..(out.i - 1)
               ELSE IF out.pc = "result" THEN 1..HungSize
               ELSE 1..out.i

\* C26 as stated: after the potential update of every search pass and at the
\* end of every outer iteration, u[i] + v[j] <= cost[i][j] for every row i and
\* column j of the padded negated cost matrix, with equality for every
\* matched pair.
C26_Original == AfterUpdate => DualFeasible(1..HungSize)

\* C26: after the potential update of every search pass and at the end of
\* every outer iteration, u[i] + v[j] <= cost[i][j] for every row i whose
\* outer iteration has started and every column j of the padded negated cost
\* matrix, with equality for every matched pair; after the last iteration
\* that is every row.
C26_DualFeasible == AfterUpdate => DualFeasible(StartedRows)

\* All three iterations are over, both kinds of potential have moved and some
\* unmatched pair has slack.
C26_Witness ==
  /\ out.op = "hungarian" /\ out.pc = "result"
  /\ HungSize = 3
  /\ \E i \in 1..3 : out.h.u[i] # Zero
  /\ \E j \in 1..3 : out.h.v[j] # Zero
  /\ \E i \in 1..3 : \E j \in 1..3 :
       NLess(NAdd(out.h.u[i], out.h.v[j]), HungCost[i][j])
  /\ DualFeasible(1..3)

\* ------------------------------------------------------------- C24
\* The columns marked as used.
UsedColumns == {j \in 0..HungSize : out.h.used[j]}

\* hungarian is inside its outer loop or about to build the result.
InLoops ==
  /\ out.op = "hungarian"
  /\ out.pc \in {"loop", "search", "scan", "update", "augment", "result"}

\* The search for a row has made at most size passes (a pass in progress
\* included), and the outer loop is at one of the rows 1..size, at size + 1
\* when it has run out.
PassesBounded ==
  InLoops
    => /\ out.h.passes <= HungSize
       /\ out.pc \in {"search", "scan", "update"} => out.h.passes < HungSize
       /\ out.pc \in {"search", "scan", "update", "augment"} => out.i \in 1..HungSize
       /\ out.pc = "loop" => out.i \in 1..(HungSize + 1)
       /\ out.pc = "result" => out.i = HungSize + 1

\* A search pass marks the column it stands on, which was unused, and no
\* other; the search goes on exactly when the column it moves to has a row.
PassMarksOneColumn ==
  /\ (out.op = "hungarian" /\ out.pc = "search")
       => /\ ~out.h.used[out.h.j0]
          /\ UsedColumns' = UsedColumns \cup {out.h.j0}
  /\ (out.op = "hungarian" /\ out.pc \in {"scan", "update"})
       => /\ UsedColumns' = UsedColumns
          /\ out'.pc \in {"search", "augment"}
               => /\ out'.h.passes = out.h.passes + 1
                  /\ out'.pc = "augment" <=> out'.h.p[out'.h.j0] = 0

\* The outer loop goes through the rows one by one.
OuterLoopCounts ==
  (InLoops /\ out.pc # "result")
    => out'.i = IF out.pc = "augment" /\ out'.pc = "loop" THEN out.i + 1 ELSE out.i

\* hungarian has returned or thrown.
HungFinished == out.op = "hungarian" /\ out.pc \in {"done", "failed"}

MainHasAssignment == out.op = "main" /\ out.pc \in {"assigned", "done"}

\* C27: for every configuration that the CLI accepts, the index-based
\* assignment that main obtains from assignRooms has one entry per person,
\* every entry is a valid room index, and no room index is given to two
\* different people.
C27_MainAssignmentValid ==
  MainHasAssignment
    => /\ Len(out.assignment) = Len(people)
       /\ \A i \in 1..Len(people) : out.assignment[i] \in 0..(Len(rooms) - 1)
       /\ \A i, k \in 1..Len(people) :
            i # k => out.assignment[i] # out.assignment[k]

\* ------------------------------------------------------------- C28
\* scoreRoom for the recorded person, room, metrics and overrides in the
\* given mode.
CalledScoreIn(priorityMode) ==
  IF out.priorityMode = priorityMode THEN out.res
  ELSE scoreRoom(people[out.personIndex], rooms[out.roomIndex], CalledMetrics, CalledMeta,
                 HouseMetaOf(rooms), priorityMode, out.overrides)

\* C28: for the same person, room, metrics and overrides, scoreRoom in bonus
\* mode minus scoreRoom in amplify mode equals
\* penaltyScore * (priorityMultiplier - 1); the two modes agree when
\* priorityMultiplier is 1 or the penalty total is 0, and the bonus-mode score
\* is never lower when the penalty total is >= 0 and priorityMultiplier >= 1.
C28_ModeDifference ==
  (out.op = "scoreRoom")
    => LET bonus == CalledScoreIn("bonus")
           amplify == CalledScoreIn("amplify")
           penalty == CalledPenalty
           multiplier == CalledMeta.priorityMultiplier
       IN /\ QSub(bonus, amplify) = QMul(penalty, QSub(multiplier, Whole(1)))
          /\ (multiplier = Whole(1) \/ penalty = Whole(0)) => bonus = amplify
          /\ (~QLess(penalty, Whole(0)) /\ ~QLess(multiplier, Whole(1)))
               => ~QLess(bonus, amplify)

\* An amplify-mode call with a positive penalty and a multiplier above 1: the
\* bonus-mode score of the same call is strictly higher.
C28_Witness ==
  /\ out.op = "scoreRoom"
  /\ out.priorityMode = "amplify"
  /\ QLess(Whole(0), CalledPenalty)
  /\ QLess(Whole(1), CalledMeta.priorityMultiplier)
  /\ QLess(out.res, CalledScoreIn("bonus"))
  /\ IsFinite(out.res) /\ IsFinite(CalledScoreIn("bonus"))

\* ------------------------------------------------------------------
\* SpecResidents: the residents builder, one entered resident per step
\* ------------------------------------------------------------------
Dash == 45
ResidentSlug == <<114, 101, 115, 105, 100, 101, 110, 116>>

IsSlugUnit(c) == (c >= 97 /\ c <= 122) \/ (c >= 48 /\ c <= 57)

\* .replace(/[^a-z0-9]+/g, "-"): every run of other units becomes one dash.
RECURSIVE ReplaceRuns(_, _, _)
ReplaceRuns(s, inRun, acc) ==
  IF Len(s) = 0 THEN acc
  ELSE IF IsSlugUnit(s[1]) THEN ReplaceRuns(Tail(s), FALSE, Append(acc, s[1]))
  ELSE ReplaceRuns(Tail(s), TRUE, IF inRun THEN acc ELSE Append(acc, Dash))

\* .replace(/(^-|-$)/g, "")
StripDashes(s) ==
  LET a == IF Len(s) > 0 /\ s[1] = Dash THEN Tail(s) ELSE s
  IN IF Len(a) > 0 /\ a[Len(a)] = Dash THEN SubSeq(a, 1, Len(a) - 1) ELSE a

slugify(value) ==
  LET slug == StripDashes(ReplaceRuns(toLowerCase(trim(value)), FALSE, <<>>))
  IN IF slug = <<>> THEN ResidentSlug ELSE slug

normalizePartnerKey(value) == slugify(value)

MapDelete(map, key) == [k \in (DOMAIN map) \ {key} |-> map[k]]

\* The first of values whose key has a pending link; <<>> when there is none.
RECURSIVE findPendingPartner(_, _)
findPendingPartner(pendingPartnerLinks, values) ==
  IF Len(values) = 0 THEN <<>>
  ELSE LET key == normalizePartnerKey(values[1])
       IN IF key \in DOMAIN pendingPartnerLinks
          THEN [key |-> key, partnerId |-> pendingPartnerLinks[key]]
          ELSE findPendingPartner(pendingPartnerLinks, Tail(values))

\* peopleById.get(id): the index of the entered person with that id, 0 if none.
IndexById(entered, id) ==
  IF \E k \in 1..Len(entered) : entered[k].id = id
  THEN CHOOSE k \in 1..Len(entered) : entered[k].id = id
  ELSE 0

PartneredInHouse(partnerId) ==
  [status |-> "partnered", partnerLocation |-> "house", partnerId |-> partnerId]

linkPartners(entered, personId, partnerId) ==
  LET person == IndexById(entered, personId)
      partner == IndexById(entered, partnerId)
  IN IF personId = partnerId \/ person = 0 \/ partner = 0 THEN entered
     ELSE [entered EXCEPT ![person].relationship = PartneredInHouse(partnerId),
                          ![partner].relationship = PartneredInHouse(personId)]

\* const relationship = { status, partnerLocation, ...(partnerId ? { partnerId } : {}) }
Relationship(status, partnerLocation, partnerId) ==
  IF partnerId # <<>>
  THEN [status |-> status, partnerLocation |-> partnerLocation, partnerId |-> partnerId]
  ELSE [status |-> status, partnerLocation |-> partnerLocation]

\* registerPerson
registerPerson(person, peopleByKey) ==
  MapSet(MapSet(peopleByKey, normalizePartnerKey(person.id), person.id),
         normalizePartnerKey(person.name), person.id)

\* promptPerson from usedIds.add(id) on: the answers are the name, the id, the
\* relationship status, the partner location and the partner text.
promptPerson(b, entered, name, id, status, location, partner) ==
  LET pendingMatch == findPendingPartner(b.pendingPartnerLinks, <<id, name>>)
      relationshipStatus == IF pendingMatch # <<>> THEN "partnered" ELSE status
      partnerLocation == IF pendingMatch # <<>> THEN "house"
                         ELSE IF status = "partnered" THEN location ELSE "none"
      partnerId == IF pendingMatch # <<>> THEN pendingMatch.partnerId
                   ELSE IF status = "partnered" /\ location = "house" THEN trim(partner)
                   ELSE <<>>
      person == [id |-> id, name |-> name,
                 relationship |-> Relationship(relationshipStatus, partnerLocation, partnerId)]
      withPerson == Append(entered, person)
      byKey == registerPerson(person, b.peopleByKey)
      used == b.usedIds \cup {id}
      partnerKey == normalizePartnerKey(partnerId)
  IN IF pendingMatch # <<>>
     THEN [people |-> linkPartners(withPerson, id, pendingMatch.partnerId),
           builder |-> [b EXCEPT !.usedIds = used, !.peopleByKey = byKey,
                                 !.pendingPartnerLinks = MapDelete(@, pendingMatch.key)]]
     ELSE IF relationshipStatus = "partnered" /\ partnerLocation = "house"
             /\ partnerId # <<>>
     THEN IF partnerKey \in DOMAIN byKey /\ byKey[partnerKey] # id
          THEN [people |-> linkPartners(withPerson, id, byKey[partnerKey]),
                builder |-> [b EXCEPT !.usedIds = used, !.peopleByKey = byKey]]
          ELSE IF partnerKey \in DOMAIN byKey
                  \/ partnerKey \in DOMAIN b.pendingPartnerLinks
          THEN [people |-> withPerson,
                builder |-> [b EXCEPT !.usedIds = used, !.peopleByKey = byKey]]
          ELSE [people |-> withPerson,
                builder |-> [b EXCEPT !.usedIds = used, !.peopleByKey = byKey,
                                      !.pendingPartnerLinks = MapSet(@, partnerKey, id)]]
     ELSE [people |-> withPerson,
           builder |-> [b EXCEPT !.usedIds = used, !.peopleByKey = byKey]]

\* "a", "b", "c", "A"
ResidentNames == {<<97>>, <<98>>, <<99>>, <<65>>}
\* "x", "a2": what is typed when the default id is taken
ResidentIds == {<<120>>, <<97, 50>>}
\* blank, "a", "b", "c", " B ", "x"
PartnerTexts == {<<>>, <<97>>, <<98>>, <<99>>, <<32, 66, 32>>, <<120>>}

InitResidents ==
  /\ people = <<>>
  /\ rooms = <<>>
  /\ scores = <<>>
  /\ out = [op |-> "residents", usedIds |-> {}, peopleByKey |-> EmptyMap,
            pendingPartnerLinks |-> EmptyMap]

\* One pass of the for loop of main: promptPerson and people.push(person).
PromptPerson ==
  /\ out.op = "residents"
  /\ Len(people) < MaxResidents
  /\ \E name \in ResidentNames, typedId \in ResidentIds,
        status \in {"single", "partnered"}, location \in {"external", "house"},
        partner \in PartnerTexts :
       LET defaultId == slugify(name)
           id == IF defaultId \in out.usedIds THEN typedId ELSE defaultId
           r == promptPerson(out, people, name, id, status, location, partner)
       IN /\ id \notin out.usedIds
          /\ people' = r.people
          /\ out' = r.builder
  /\ UNCHANGED <<rooms, scores>>

NextResidents == PromptPerson

SpecResidents == InitResidents /\ [][NextResidents]_vars

\* ------------------------------------------------------------- C29
\* Person i of the output names person k as in-house partner.
NamesAsPartner(i, k) ==
  /\ "partnerId" \in DOMAIN people[i].relationship
  /\ people[i].relationship.partnerId = people[k].id

\* C29: after any sequence of resident entries, whenever a person X of the
\* output has relationship.partnerId equal to the id of another entered
\* person Y, Y's relationship is partnered / house with partnerId equal to X's
\* id.
C29_LinksMutual ==
  (out.op = "residents")
    => \A i, k \in 1..Len(people) :
         (i # k /\ NamesAsPartner(i, k))
           => people[k].relationship = PartneredInHouse(people[i].id)

\* ------------------------------------------------------------------
\* SpecGemini: buildGeminiScores from the creation of the question reader on
\* ------------------------------------------------------------------
TimedOutMessage == "Gemini request timed out after 30000ms."

\* The errors of one attempt: thrown by requestGemini (the abort of the timer,
\* an empty response, an error of the client with or without the words
\* "timed out"), by the parsing and normalisation of the response, by
\* buildGeminiScores itself and by promptGeminiQuestions.
RequestErrors ==
  {TimedOutMessage, "Gemini response did not include text content.",
   "The operation timed out.", "fetch failed"}

\* The responses that arrive as text.
ResponseTexts ==
  {"unparsable", "scores and reasons", "scores of the wrong shape",
   "scores without reasons", "questions", "neither"}

\* message.includes("timed out") on the messages above.
includesTimedOut(message) ==
  message \in {TimedOutMessage, "The operation timed out."}

\* Mutant of shouldRethrow: the last attempt is retried as well.
shouldRethrowOnlyOther(message, attempt, attemptMax) ==
  ~includesTimedOut(message)

\* if (!message.includes("timed out") || attempt >= attemptMax) throw error
shouldRethrow(message, attempt, attemptMax) ==
  ~includesTimedOut(message) \/ attempt >= attemptMax

\* const maxRounds = geminiOptions.allowQuestions ? 3 : 1
maxRounds(allowQuestions) == IF allowQuestions THEN 3 ELSE 1

\* const attemptMax = Math.max(0, geminiOptions.retries)
attemptMax(retries) == MaxOf(0, retries)

\* What the body of the try block does with a response text: it returns,
\* throws, or goes on to ask the questions.
BodyOutcome(text, allowQuestions) ==
  IF text = "unparsable"
  THEN [kind |-> "throw", message |-> "Unable to parse JSON from Gemini response."]
  ELSE IF text = "scores and reasons" THEN [kind |-> "return", message |-> ""]
  ELSE IF text = "scores of the wrong shape"
  THEN [kind |-> "throw", message |-> "Gemini scores must include one row per person."]
  ELSE IF text = "scores without reasons"
  THEN [kind |-> "throw", message |-> "Gemini response must include reasons for each score."]
  ELSE IF ~allowQuestions
  THEN [kind |-> "throw", message |-> "Gemini did not return scores."]
  ELSE IF text = "neither"
  THEN [kind |-> "throw", message |-> "Gemini did not return questions or scores."]
  ELSE [kind |-> "ask", message |-> ""]

\* finally { reader?.close() }
CloseReader(reader) == IF reader = "none" THEN "none" ELSE "closed"

InitGemini ==
  /\ people = <<>> /\ rooms = <<>> /\ scores = <<>>
  /\ \E allowQuestions \in BOOLEAN, retries \in 0..MaxRetries :
       out = [op |-> "buildGeminiScores", pc |-> "round",
              allowQuestions |-> allowQuestions, retries |-> retries,
              reader |-> IF allowQuestions THEN "open" ELSE "none",
              round |-> 0, attempt |-> 0, contents |-> 1,
              requests |-> 0, roundRequests |-> 0,
              last |-> "", result |-> "none"]

\* An error leaves the try block: the reader is closed and the call throws.
GeminiThrow(message) ==
  [out EXCEPT !.pc = "failed", !.result = "throw", !.last = message,
              !.reader = CloseReader(out.reader)]

\* The catch block of one attempt.
GeminiCatch(message) ==
  IF shouldRethrow(message, out.attempt, attemptMax(out.retries))
  THEN GeminiThrow(message)
  ELSE [out EXCEPT !.pc = "attempt", !.attempt = out.attempt + 1, !.last = message]

\* for (let round = 0; round < maxRounds; round += 1): the test; after the
\* loop the reader is closed and the call throws.
GeminiRoundTest ==
  /\ out.op = "buildGeminiScores" /\ out.pc = "round"
  /\ out' = IF out.round < maxRounds(out.allowQuestions)
            THEN [out EXCEPT !.pc = "attempt", !.attempt = 0, !.roundRequests = 0]
            ELSE GeminiThrow("Gemini did not return scores after follow-up questions.")
  /\ UNCHANGED <<people, rooms, scores>>

\* for (let attempt = 0; attempt <= attemptMax; attempt += 1): the test and
\* the sending of the request.
GeminiAttemptTest ==
  /\ out.op = "buildGeminiScores" /\ out.pc = "attempt"
  /\ out' = IF out.attempt <= attemptMax(out.retries)
            THEN [out EXCEPT !.pc = "request", !.requests = out.requests + 1,
                             !.roundRequests = out.roundRequests + 1]
            ELSE [out EXCEPT !.pc = "round", !.round = out.round + 1]
  /\ UNCHANGED <<people, rooms, scores>>

\* await requestGemini(...) ends with an error or a text, and the rest of the
\* try block up to the questions runs.
GeminiResponse ==
  /\ out.op = "buildGeminiScores" /\ out.pc = "request"
  /\ \/ \E message \in RequestErrors : out' = GeminiCatch(message)
     \/ \E text \in ResponseTexts :
          LET outcome == BodyOutcome(text, out.allowQuestions)
          IN out' = IF outcome.kind = "throw" THEN GeminiCatch(outcome.message)
                    ELSE IF outcome.kind = "return"
                    THEN [out EXCEPT !.pc = "done", !.result = "scores and reasons",
                                     !.last = text, !.reader = CloseReader(out.reader)]
                    ELSE [out EXCEPT !.pc = "asking", !.last = text]
  /\ UNCHANGED <<people, rooms, scores>>

\* await promptGeminiQuestions(reader, payload.questions): the answers are
\* pushed and the attempt loop is left, or the terminal is not interactive.
GeminiAnswers ==
  /\ out.op = "buildGeminiScores" /\ out.pc = "asking"
  /\ \/ out' = [out EXCEPT !.pc = "round", !.round = out.round + 1,
                           !.contents = out.contents + 2, !.last = "answers"]
     \/ out' = GeminiCatch("Gemini follow-up questions require an interactive terminal.")
  /\ UNCHANGED <<people, rooms, scores>>

NextGemini ==
  GeminiRoundTest \/ GeminiAttemptTest \/ GeminiResponse \/ GeminiAnswers

\* Every request ends (with a response, an error or the abort of its timer)
\* and every question is answered or fails.
SpecGeminiLive == InitGemini /\ [][NextGemini]_vars /\ WF_vars(NextGemini)

\* ------------------------------------------------------------- C30
GeminiEnded == out.op = "buildGeminiScores" /\ out.pc \in {"done", "failed"}

\* The bounds on rounds and requests, and the shape of every exit.
GeminiBounds ==
  (out.op = "buildGeminiScores")
    => /\ out.roundRequests <= out.retries + 1
       /\ out.round <= maxRounds(out.allowQuestions)
       /\ out.pc \in {"attempt", "request", "asking"}
            => out.round < (IF out.allowQuestions THEN 3 ELSE 1)
       /\ out.requests <= (IF out.allowQuestions THEN 3 ELSE 1) * (out.retries + 1)
       /\ out.pc = "done" => out.result = "scores and reasons"
       /\ out.pc = "failed" => out.result = "throw"
       /\ GeminiEnded => out.reader # "open"
       /\ ~GeminiEnded => out.result = "none"

\* The messages of the errors thrown inside the try block after the response
\* has arrived.
BodyErrors ==
  {BodyOutcome(text, allowQuestions).message :
     text \in {t \in ResponseTexts : t # "scores and reasons"},
     allowQuestions \in {FALSE}}
  \cup {BodyOutcome("neither", TRUE).message,
        BodyOutcome("unparsable", TRUE).message,
        "Gemini follow-up questions require an interactive terminal."}

\* A step that sends a request.
SendsRequest == out'.requests = out.requests + 1

\* A request is sent again within a round only after a timeout; any other
\* error, and a timeout on the last attempt, end the call at once; nothing is
\* sent after the call has ended.
GeminiRetries ==
  /\ (SendsRequest /\ out.roundRequests > 0)
       => includesTimedOut(out.last) /\ out'.roundRequests = out.roundRequests + 1
  /\ (out.pc \in {"request", "asking"} /\ out'.last \in RequestErrors \cup BodyErrors
        /\ (~includesTimedOut(out'.last) \/ out.attempt >= out.retries))
       => out'.pc = "failed" /\ out'.requests = out.requests
  /\ out'.requests \in {out.requests, out.requests + 1}
  /\ ~GeminiEnded

====
